---- MODULE Spec2Model ----
(***************************************************************************)
(* Thermal analysis engine of breast-monitor: metric computation, risk     *)
(* classification, anomaly-zone detection and conclusion generation        *)
(* (backend/services/analyzer.py, backend/services/llm_service.py), the    *)
(* extraction of a reading from a thermal image (backend/routers/          *)
(* images.py) and the two handlers that run the engine and persist its     *)
(* output (backend/services/measurements.py, backend/routers/images.py).   *)
(*                                                                         *)
(* Numbers.  The Python code computes on IEEE-754 binary64 floats.  A      *)
(* float is modelled exactly, as the dyadic rational                       *)
(*     ip + (f2*B^2 + f1*B + f0) / B^3      with B = 2^18,                  *)
(* written <<ip, f2, f1, f0>>: ip is the floor of the value (any integer)  *)
(* and f2, f1, f0 are the 54 fraction bits.  Every float of magnitude at   *)
(* least 1/4 is on this grid, and so is every sum or difference of such    *)
(* floats.  A decimal value (a literal, a parsed request field, the result *)
(* of round(x, n)) is modelled as an integer count of tenths or hundredths *)
(* and FromDecimal gives the float nearest to it, as the parser does.      *)
(***************************************************************************)
EXTENDS Integers, Sequences, FiniteSets

LimbBase == 2^18

\* Carry propagation: the tuple with the same value and every limb in 0..B-1.
Norm(ip, n2, n1, n0) ==
    LET c0 == n0 \div LimbBase
        m1 == n1 + c0
        c1 == m1 \div LimbBase
        m2 == n2 + c1
        c2 == m2 \div LimbBase
    IN  <<ip + c2, m2 % LimbBase, m1 % LimbBase, n0 % LimbBase>>

Zero == <<0, 0, 0, 0>>

\* Exact sum, difference and negation on the grid.
DAdd(x, y) == Norm(x[1] + y[1], x[2] + y[2], x[3] + y[3], x[4] + y[4])

DSub(x, y) == Norm(x[1] - y[1], x[2] - y[2], x[3] - y[3], x[4] - y[4])

DNeg(x) == DSub(Zero, x)

\* x < y and x > y on floats (lexicographic on the limbs).
DLess(x, y) ==
    \/ x[1] < y[1]
    \/ x[1] = y[1] /\ x[2] < y[2]
    \/ x[1] = y[1] /\ x[2] = y[2] /\ x[3] < y[3]
    \/ x[1] = y[1] /\ x[2] = y[2] /\ x[3] = y[3] /\ x[4] < y[4]

DGreater(x, y) == DLess(y, x)

\* abs(x)
DAbs(x) == IF x[1] < 0 THEN DNeg(x) ELSE x

\* Unit in the last place of a binary64 of integer part ip >= 1, counted in
\* grid units of 2^-54: 2^(e-52) for a value in [2^e, 2^(e+1)).
RECURSIVE UlpOfInt(_)
UlpOfInt(ip) == IF ip < 2 THEN 4 ELSE 2 * UlpOfInt(ip \div 2)

\* Unit in the last place of a non-negative grid value.
Ulp(x) ==
    IF x[1] >= 1 THEN UlpOfInt(x[1])
    ELSE IF 2 * x[2] >= LimbBase THEN 2
    ELSE 1

\* Round a non-negative grid value, exceeded by the fraction num/den of one
\* grid unit (0 <= num < den), to the nearest binary64, ties to even.
RoundMag(x, num, den) ==
    LET q    == Ulp(x)
        r    == x[4] % q
        base == x[4] - r
        twice == 2 * (r * den + num)
        up   == \/ twice > q * den
                \/ twice = q * den /\ (base \div q) % 2 = 1
    IN  Norm(x[1], x[2], x[3], base + (IF up THEN q ELSE 0))

\* The binary64 nearest to an exact grid value (the rounding of one
\* floating-point addition or subtraction).
RoundD(x) == IF x[1] < 0 THEN DNeg(RoundMag(DNeg(x), 0, 1)) ELSE RoundMag(x, 0, 1)

\* Float addition and subtraction.
FAdd(x, y) == RoundD(DAdd(x, y))

FSub(x, y) == RoundD(DSub(x, y))

\* The binary64 nearest to the decimal n/scale, n >= 0.
FromMagnitude(n, scale) ==
    LET ip == n \div scale
        r3 == n % scale
        f2 == (r3 * LimbBase) \div scale
        r2 == (r3 * LimbBase) % scale
        f1 == (r2 * LimbBase) \div scale
        r1 == (r2 * LimbBase) % scale
        f0 == (r1 * LimbBase) \div scale
        r0 == (r1 * LimbBase) % scale
    IN  RoundMag(<<ip, f2, f1, f0>>, r0, scale)

\* The binary64 nearest to the decimal n/scale (float parsing).
FromDecimal(n, scale) ==
    IF n < 0 THEN DNeg(FromMagnitude(-n, scale)) ELSE FromMagnitude(n, scale)

\* x / k for k a power of two: exact in binary64.
DDiv(x, k) ==
    LET q3 == x[1] \div k
        n2 == (x[1] % k) * LimbBase + x[2]
        n1 == (n2 % k) * LimbBase + x[3]
        n0 == (n1 % k) * LimbBase + x[4]
    IN  <<q3, n2 \div k, n1 \div k, n0 \div k>>

\* x * m, exact, for a small positive integer m.
DMul(x, m) == Norm(x[1] * m, x[2] * m, x[3] * m, x[4] * m)

\* round(x, ndigits) with scale = 10^ndigits: the decimal with ndigits
\* fraction digits nearest to the exact value of x, ties to even, as an
\* integer count of 1/scale.
RoundDec(x, scale) ==
    LET m    == DMul(DAbs(x), scale)
        half == LimbBase \div 2
        k    == IF m[2] > half \/ (m[2] = half /\ (m[3] > 0 \/ m[4] > 0))
                    THEN m[1] + 1
                ELSE IF m[2] = half /\ m[1] % 2 = 1 THEN m[1] + 1
                ELSE m[1]
    IN  IF x[1] < 0 THEN -k ELSE k

(***************************************************************************)
(* State.                                                                  *)
(*   asymmetry, max_temp  arguments of a direct classify_risk call         *)
(*   classified           its result, NoValue before the call              *)
(*   temps                a reading: 8 zone temperatures, in tenths of a   *)
(*                        degree as they were entered                      *)
(*   metrics              result of calculate_metrics(temps)               *)
(*   anomaly_zones        result of find_anomaly_zones(temps)              *)
(*   called               the engine functions that have returned          *)
(*   openai_key, gemini_key      LLMService: a credential is configured    *)
(*   openai_client, gemini_model LLMService: the cached provider handles   *)
(*   llm_pc               position of the generate_conclusion coroutine    *)
(*   llm_args             its (metrics, risk_level, anomalies) arguments   *)
(*   llm_result           the text it returned                             *)
(*   attempts             providers attempted by the current call          *)
(*   constructions        provider handles constructed so far              *)
(*   calls                calls started so far                             *)
(*   remembered           history: one earlier call no provider answered   *)
(*   built_in             history: the call in which the handle of each    *)
(*                        provider was constructed, 0 if it never was      *)
(*   image                the file handed to analyze_thermal_colors: does  *)
(*                        it decode, the mean colour of each tile of its   *)
(*                        2x4 grid, the message of the exception if not    *)
(*   draws                the 8 numbers random.random() yields next, in    *)
(*                        1/DrawGrid                                       *)
(*   extracted            the dict analyze_thermal_colors returned         *)
(*   settings             the module-level settings object (config.py),    *)
(*                        read by classify_risk at every call              *)
(*   req                  the requests being served by create_measurement  *)
(*                        and upload_thermal_image: what was submitted,    *)
(*                        the position of the coroutine, its locals, the   *)
(*                        response                                         *)
(*   db                   the committed rows of the three tables           *)
(*   next_id              the next primary key of each table               *)
(*   analyzer_state       the attributes of the module-level analyzer      *)
(*                        object: AnalyzerService defines none             *)
(***************************************************************************)
VARIABLES asymmetry, max_temp, classified, temps, metrics, anomaly_zones, called,
          openai_key, gemini_key, openai_client, gemini_model,
          llm_pc, llm_args, llm_result, attempts, constructions, calls,
          remembered, built_in,
          image, draws, extracted,
          settings,
          req, db, next_id, analyzer_state,
          fsm_state, posts, handled, invalid_run,
          stats,
          rolls, simulate

riskVars == <<asymmetry, max_temp, classified>>

engineVars == <<temps, metrics, anomaly_zones, called>>

llmVars == <<openai_key, gemini_key, openai_client, gemini_model,
             llm_pc, llm_args, llm_result, attempts, constructions, calls,
             remembered, built_in>>

imageVars == <<image, draws, extracted>>

configVars == <<settings>>

pipelineVars == <<req, db, next_id, analyzer_state>>

botVars == <<fsm_state, posts, handled, invalid_run>>

statsVars == <<stats>>

deviceVars == <<rolls, simulate>>

vars == <<riskVars, engineVars, llmVars, imageVars, configVars, pipelineVars,
          botVars, statsVars, deviceVars>>

\* What the actions of one part leave alone: the variables of the other parts.
notRisk == <<engineVars, llmVars, imageVars, configVars, pipelineVars,
    botVars, statsVars, deviceVars>>

notEngine == <<riskVars, llmVars, imageVars, configVars, pipelineVars,
    botVars, statsVars, deviceVars>>

notLLM == <<riskVars, engineVars, imageVars, configVars, pipelineVars,
    botVars, statsVars, deviceVars>>

notImage == <<riskVars, engineVars, llmVars, configVars, pipelineVars,
    botVars, statsVars, deviceVars>>

notPipeline == <<riskVars, engineVars, llmVars, imageVars, configVars,
    botVars, statsVars, deviceVars>>

notBot == <<riskVars, engineVars, llmVars, imageVars, configVars, pipelineVars,
    statsVars, deviceVars>>

notStats == <<riskVars, engineVars, llmVars, imageVars, configVars, pipelineVars,
    botVars, deviceVars>>

notDevice == <<riskVars, llmVars, imageVars, configVars, pipelineVars,
    botVars, statsVars>>

NoValue == "none"

\* The result slot of a call that has not been made yet.
Unclassified == [risk_level |-> NoValue, anomalies |-> << >>]

\* The defaults of the analysis thresholds (backend/config.py), as counts of
\* hundredths of a degree.
Settings ==
    [ASYMMETRY_NORMAL |-> 50, ASYMMETRY_ELEVATED |-> 100,
     TEMP_NORMAL_MAX |-> 3750, TEMP_ELEVATED_MAX |-> 3800]

\* "settings.ASYMMETRY_NORMAL" and the like: the attribute as it is now.
ASYMMETRY_NORMAL == settings.ASYMMETRY_NORMAL

ASYMMETRY_ELEVATED == settings.ASYMMETRY_ELEVATED

TEMP_NORMAL_MAX == settings.TEMP_NORMAL_MAX

TEMP_ELEVATED_MAX == settings.TEMP_ELEVATED_MAX

\* The float a setting holds.
Setting(cents) == FromDecimal(cents, 100)

\* x >= y on floats.
DGeq(x, y) == ~DLess(x, y)

\* f"{asymmetry:.2f}" and f"{max_temp:.1f}": the digits printed, as a count
\* of hundredths and of tenths.
Fmt2(x) == RoundDec(x, 100)

Fmt1(x) == RoundDec(x, 10)

RiskLevels == {"NORMAL", "ELEVATED", "HIGH"}

\* Slips of the level rule: HIGH only when both axes agree; strict
\* comparisons; the temperature test of the ELEVATED tier turned around.
RiskLevelOfBothAxes(a, t) ==
    IF DGeq(a, Setting(ASYMMETRY_ELEVATED)) /\ DGeq(t, Setting(TEMP_ELEVATED_MAX))
        THEN "HIGH"
    ELSE IF DGeq(a, Setting(ASYMMETRY_NORMAL)) \/ DGeq(t, Setting(TEMP_NORMAL_MAX))
        THEN "ELEVATED"
    ELSE "NORMAL"

RiskLevelOfStrict(a, t) ==
    IF DGreater(a, Setting(ASYMMETRY_ELEVATED)) \/ DGreater(t, Setting(TEMP_ELEVATED_MAX))
        THEN "HIGH"
    ELSE IF DGreater(a, Setting(ASYMMETRY_NORMAL)) \/ DGreater(t, Setting(TEMP_NORMAL_MAX))
        THEN "ELEVATED"
    ELSE "NORMAL"

RiskLevelOfTurned(a, t) ==
    IF DGeq(a, Setting(ASYMMETRY_ELEVATED)) \/ DGeq(t, Setting(TEMP_ELEVATED_MAX))
        THEN "HIGH"
    ELSE IF DGeq(a, Setting(ASYMMETRY_NORMAL)) \/ DGeq(Setting(TEMP_NORMAL_MAX), t)
        THEN "ELEVATED"
    ELSE "NORMAL"

\* The risk level of classify_risk.
RiskLevelOf(a, t) ==
    IF DGeq(a, Setting(ASYMMETRY_ELEVATED)) \/ DGeq(t, Setting(TEMP_ELEVATED_MAX))
        THEN "HIGH"
    ELSE IF DGeq(a, Setting(ASYMMETRY_NORMAL)) \/ DGeq(t, Setting(TEMP_NORMAL_MAX))
        THEN "ELEVATED"
    ELSE "NORMAL"

\* The description appended for the asymmetry axis, if any.
AsymmetryEntry(a) ==
    IF DGeq(a, Setting(ASYMMETRY_ELEVATED))
        THEN << <<"significant asymmetry", Fmt2(a)>> >>
    ELSE IF DGeq(a, Setting(ASYMMETRY_NORMAL))
        THEN << <<"moderate asymmetry", Fmt2(a)>> >>
    ELSE << >>

\* The description appended for the temperature axis, if any.
TemperatureEntry(t) ==
    IF DGeq(t, Setting(TEMP_ELEVATED_MAX))
        THEN << <<"elevated temperature", Fmt1(t)>> >>
    ELSE IF DGeq(t, Setting(TEMP_NORMAL_MAX))
        THEN << <<"above-normal temperature", Fmt1(t)>> >>
    ELSE << >>

\* A slip of the description list: the temperature check left out.
classify_risk_AsymmetryOnly(a, t) ==
    [risk_level |-> RiskLevelOf(a, t),
     anomalies  |-> AsymmetryEntry(a)]

\* A slip of the description list: the temperature check made first.
classify_risk_TemperatureFirst(a, t) ==
    [risk_level |-> RiskLevelOf(a, t),
     anomalies  |-> TemperatureEntry(t) \o AsymmetryEntry(a)]

\* classify_risk(asymmetry, max_temp) -> (risk_level, anomalies)
classify_risk(a, t) ==
    [risk_level |-> RiskLevelOf(a, t),
     anomalies  |-> AsymmetryEntry(a) \o TemperatureEntry(t)]

\* The floats of a reading entered in tenths of a degree.
Floats(reading) == [i \in 1..Len(reading) |-> FromDecimal(reading[i], 10)]

\* sum(xs): left-to-right float additions starting from 0, each rounded
\* (the builtin of CPython up to 3.11; no compensated summation).
RECURSIVE FSum(_)
FSum(xs) ==
    IF xs = << >> THEN Zero
    ELSE FAdd(FSum(SubSeq(xs, 1, Len(xs) - 1)), xs[Len(xs)])

\* max(xs) and min(xs)
FMax(xs) == CHOOSE m \in {xs[i] : i \in 1..Len(xs)} :
                \A i \in 1..Len(xs) : ~DLess(m, xs[i])

FMin(xs) == CHOOSE m \in {xs[i] : i \in 1..Len(xs)} :
                \A i \in 1..Len(xs) : ~DLess(xs[i], m)

\* round(x, 2), as a count of hundredths.
Round2(x) == RoundDec(x, 100)

NoMetrics ==
    [avg_left |-> 0, avg_right |-> 0, avg_total |-> 0,
     asymmetry |-> 0, max_temp |-> 0, min_temp |-> 0]

\* avg_left and avg_right before rounding.
AvgLeft(xs) == DDiv(FSum(SubSeq(xs, 1, 4)), 4)

AvgRight(xs) == DDiv(FSum(SubSeq(xs, 5, 8)), 4)

\* asymmetry and avg_total before rounding.
RawAsymmetry(avg_left, avg_right) == DAbs(FSub(avg_left, avg_right))

RawAvgTotal(avg_left, avg_right) == DDiv(FAdd(avg_left, avg_right), 2)

\* Slips of the dictionary: asymmetry, and avg_total, computed from the
\* rounded side averages.
MetricsOfRoundedSides(avg_left, avg_right, hi, lo) ==
    [avg_left  |-> Round2(avg_left),
     avg_right |-> Round2(avg_right),
     avg_total |-> Round2(RawAvgTotal(avg_left, avg_right)),
     asymmetry |-> Round2(RawAsymmetry(FromDecimal(Round2(avg_left), 100),
                                       FromDecimal(Round2(avg_right), 100))),
     max_temp  |-> Round2(hi),
     min_temp  |-> Round2(lo)]

MetricsOfRoundedTotal(avg_left, avg_right, hi, lo) ==
    [avg_left  |-> Round2(avg_left),
     avg_right |-> Round2(avg_right),
     avg_total |-> Round2(RawAvgTotal(FromDecimal(Round2(avg_left), 100),
                                      FromDecimal(Round2(avg_right), 100))),
     asymmetry |-> Round2(RawAsymmetry(avg_left, avg_right)),
     max_temp  |-> Round2(hi),
     min_temp  |-> Round2(lo)]

\* A slip of the dictionary: avg_total left as the sum of the side averages.
MetricsOfUnhalvedTotal(avg_left, avg_right, hi, lo) ==
    [avg_left  |-> Round2(avg_left),
     avg_right |-> Round2(avg_right),
     avg_total |-> Round2(FAdd(avg_left, avg_right)),
     asymmetry |-> Round2(RawAsymmetry(avg_left, avg_right)),
     max_temp  |-> Round2(hi),
     min_temp  |-> Round2(lo)]

\* The dictionary returned, every field in hundredths of a degree.
MetricsOf(avg_left, avg_right, hi, lo) ==
    [avg_left  |-> Round2(avg_left),
     avg_right |-> Round2(avg_right),
     avg_total |-> Round2(RawAvgTotal(avg_left, avg_right)),
     asymmetry |-> Round2(RawAsymmetry(avg_left, avg_right)),
     max_temp  |-> Round2(hi),
     min_temp  |-> Round2(lo)]

\* calculate_metrics refusing a reading with a zone outside [30, 45]: no
\* metrics are returned.
calculate_metrics_Validated(xs) ==
    IF \E i \in 1..Len(xs) :
           DLess(xs[i], FromDecimal(300, 10)) \/ DLess(FromDecimal(450, 10), xs[i])
        THEN NoMetrics
        ELSE MetricsOf(AvgLeft(xs), AvgRight(xs), FMax(xs), FMin(xs))

\* calculate_metrics(temps)
calculate_metrics(xs) == MetricsOf(AvgLeft(xs), AvgRight(xs), FMax(xs), FMin(xs))

zone_names ==
    <<"left upper inner", "left upper outer",
      "left lower inner", "left lower outer",
      "right upper inner", "right upper outer",
      "right lower inner", "right lower outer">>

\* The margin 0.8 of find_anomaly_zones, in tenths of a degree.
ZoneMargin == 8

\* avg_temp = sum(temps) / len(temps)
AvgTemp(xs) == DDiv(FSum(xs), Len(xs))

\* deviation = temp - avg_temp
Deviation(temp, avg_temp) == FSub(temp, avg_temp)

\* The test taken on the size of the deviation, whichever its sign.
IsAnomalousEitherWay(deviation) ==
    DGreater(DAbs(deviation), FromDecimal(ZoneMargin, 10))

\* The test that flags a zone.
IsAnomalous(deviation) == DGreater(deviation, FromDecimal(ZoneMargin, 10))

\* A slip of the loop: each entry inserted at the front of the list.
RECURSIVE ZonesUpToFront(_, _, _)
ZonesUpToFront(xs, avg_temp, n) ==
    IF n = 0 THEN << >>
    ELSE LET deviation == Deviation(xs[n], avg_temp)
         IN  (IF IsAnomalous(deviation)
                  THEN << <<zone_names[n], Fmt1(deviation)>> >>
                  ELSE << >>)
             \o ZonesUpToFront(xs, avg_temp, n - 1)

\* The entries appended for zones 1..n, in the order of the loop.
RECURSIVE ZonesUpTo(_, _, _)
ZonesUpTo(xs, avg_temp, n) ==
    IF n = 0 THEN << >>
    ELSE LET deviation == Deviation(xs[n], avg_temp)
         IN  ZonesUpTo(xs, avg_temp, n - 1) \o
             (IF IsAnomalous(deviation)
                  THEN << <<zone_names[n], Fmt1(deviation)>> >>
                  ELSE << >>)

\* find_anomaly_zones(temps)
find_anomaly_zones(xs) == ZonesUpTo(xs, AvgTemp(xs), Len(xs))

(***************************************************************************)
(* Conclusion texts.  A text is the sequence of its pieces, each a pair:   *)
(* a literal piece is <<wording, 0>>, an embedded metric is <<field,       *)
(* value in hundredths>> (the shortest decimal Python prints determines    *)
(* the value and back), an embedded description is the entry itself.       *)
(***************************************************************************)
Lit(wording) == <<wording, 0>>

\* The "• {anomaly}\n" lines appended by the loops.
RECURSIVE Bullets(_)
Bullets(list) ==
    IF list = << >> THEN << >>
    ELSE <<Lit("bullet"), Head(list)>> \o Bullets(Tail(list))

\* The three metric lines shared by the templates of generate_conclusion.
MetricLines(m) ==
    <<Lit("average temperature of the left breast:"), <<"avg_left", m.avg_left>>,
      Lit("average temperature of the right breast:"), <<"avg_right", m.avg_right>>,
      Lit("asymmetry:"), <<"asymmetry", m.asymmetry>>>>

\* AnalyzerService.generate_conclusion(metrics, risk_level, anomalies)
generate_conclusion(m, risk_level, list) ==
    IF risk_level = "NORMAL" THEN
        <<Lit("all indicators are within the normal range")>>
            \o MetricLines(m)
            \o <<Lit("temperature distribution is symmetric, no signs of anomalies found")>>
    ELSE IF risk_level = "ELEVATED" THEN
        <<Lit("minor deviations detected")>>
            \o MetricLines(m)
            \o <<Lit("deviations found:")>>
            \o Bullets(list)
            \o <<Lit("recommendations: repeat the measurement in 24-48 hours"),
                 Lit("if the asymmetry persists a specialist consultation is recommended")>>
    ELSE
        <<Lit("significant deviations from the norm detected")>>
            \o MetricLines(m)
            \o <<Lit("deviations found:")>>
            \o Bullets(list)
            \o <<Lit("IMPORTANT: see a mammologist for further examination"),
                 Lit("this system is not a medical diagnostic device"),
                 Lit("and does not replace a specialist consultation")>>

\* ", ".join(anomalies)
RECURSIVE Joined(_)
Joined(list) ==
    IF list = << >> THEN << >>
    ELSE IF Len(list) = 1 THEN <<Head(list)>>
    ELSE <<Head(list), Lit(", ")>> \o Joined(Tail(list))

\* anomaly_text: the joined descriptions, or the default wording when empty.
AnomalyText(list, default) == IF list # << >> THEN Joined(list) ELSE <<Lit(default)>>

\* LLMService._generate_rule_based(metrics, risk_level, anomalies)
generate_rule_based(m, risk_level, list) ==
    IF risk_level = "NORMAL" THEN
        <<Lit("thermographic analysis results are within the normal range"),
          Lit("average temperature of the left mammary gland is"), <<"avg_left", m.avg_left>>,
          Lit("of the right"), <<"avg_right", m.avg_right>>,
          Lit("temperature asymmetry"), <<"asymmetry", m.asymmetry>>,
          Lit("is within admissible limits, a normal heat distribution"),
          Lit("continue regular monitoring"),
          Lit("this system is an auxiliary tool"),
          Lit("and does not replace the consultation of a mammologist")>>
    ELSE IF risk_level = "ELEVATED" THEN
        <<Lit("minor deviations from the norm detected"), Lit("found:")>>
            \o AnomalyText(list, "minor asymmetry")
            \o <<Lit("average temperature of the left mammary gland"), <<"avg_left", m.avg_left>>,
                 Lit("of the right"), <<"avg_right", m.avg_right>>,
                 Lit("such deviations may be due to natural fluctuations"),
                 Lit("repeat the measurement in 24-48 hours to confirm the results"),
                 Lit("if the asymmetry persists a specialist consultation is recommended"),
                 Lit("this system is not a medical diagnostic device")>>
    ELSE
        <<Lit("significant deviations from the norm detected"), Lit("found:")>>
            \o AnomalyText(list, "significant temperature asymmetry")
            \o <<Lit("temperature asymmetry is"), <<"asymmetry", m.asymmetry>>,
                 Lit("which exceeds the threshold"),
                 Lit("maximum recorded temperature:"), <<"max_temp", m.max_temp>>,
                 Lit("such changes may indicate conditions requiring a specialist's attention"),
                 Lit("IMPORTANT: see a mammologist for further examination"),
                 Lit("this system is an auxiliary screening tool"),
                 Lit("and does NOT replace professional medical diagnostics"),
                 Lit("do not postpone the visit to a specialist")>>

(***************************************************************************)
(* Direct calls of classify_risk.                                          *)
(***************************************************************************)
MaxAsymmetry == 104

MinTemp == 3746

MaxTemp == 3804

\* The largest float below a float of magnitude at least 1/2 that is a
\* power of two or not the smallest of its binade.
Below(x) == DSub(x, <<0, 0, 0, Ulp(DSub(x, <<0, 0, 0, 1>>))>>)

Thresholds ==
    {Setting(ASYMMETRY_NORMAL), Setting(ASYMMETRY_ELEVATED),
     Setting(TEMP_NORMAL_MAX), Setting(TEMP_ELEVATED_MAX)}

AsymmetryInputs ==
    {FromDecimal(n, 100) : n \in {0} \cup (46..MaxAsymmetry)}
        \cup {Below(Setting(ASYMMETRY_NORMAL)), Below(Setting(ASYMMETRY_ELEVATED))}

MaxTempInputs ==
    {FromDecimal(n, 100) : n \in MinTemp..MaxTemp}
        \cup {Below(Setting(TEMP_NORMAL_MAX)), Below(Setting(TEMP_ELEVATED_MAX))}

NoClient == "None"

NoText == << >>

NoArgs == [metrics |-> NoMetrics, risk_level |-> NoValue, anomalies |-> << >>]

NoConstructions == [openai |-> 0, gemini |-> 0]

\* No earlier call is held for comparison.
NoRemembered == [args |-> NoArgs, text |-> NoText, call |-> 0]

\* An LLMService without credentials that was never called.
LLMIdle ==
    /\ openai_key = FALSE
    /\ gemini_key = FALSE
    /\ openai_client = NoClient
    /\ gemini_model = NoClient
    /\ llm_pc = "idle"
    /\ llm_args = NoArgs
    /\ llm_result = NoText
    /\ attempts = << >>
    /\ constructions = NoConstructions
    /\ calls = 0
    /\ remembered = NoRemembered
    /\ built_in = NoConstructions

\* The mean colour of a tile, each channel in 0..255.
Colour(r, g, b) == [r |-> r, g |-> g, b |-> b]

\* A 2x4 grid of black tiles.
BlankGrid == [row \in 0..1 |-> [col \in 0..3 |-> Colour(0, 0, 0)]]

NoImage == [decodes |-> FALSE, tiles |-> BlankGrid, reason |-> NoValue]

NoDraws == << >>

NoExtraction ==
    [temperatures |-> << >>, color_data |-> [zones_analyzed |-> 0, method |-> NoValue]]

\* analyze_thermal_colors was handed no file.
ImageIdle ==
    /\ image = NoImage
    /\ draws = NoDraws
    /\ extracted = NoExtraction

\* The requests served side by side.
Requests == {1, 2}

NoSubmission ==
    [kind |-> NoValue, reading |-> << >>, content_type_ok |-> FALSE,
     size_ok |-> FALSE, image |-> NoImage, draws |-> NoDraws]

NoRow ==
    [id |-> 0, device_id |-> NoValue, source |-> NoValue, sensors |-> << >>,
     avg_left |-> 0, avg_right |-> 0, asymmetry |-> 0, max_temp |-> 0]

NoResponse == [measurement_id |-> 0]

NoRequest ==
    [sub |-> NoSubmission, pc |-> "none", temps |-> << >>, metrics |-> NoMetrics,
     risk_level |-> NoValue, anomalies |-> << >>, anomaly_zones |-> << >>,
     conclusion |-> NoText, color_data |-> NoExtraction.color_data,
     measurement |-> NoRow, response |-> NoResponse]

EmptyDB == [measurements |-> {}, analyses |-> {}, images |-> {}]

FirstIds == [measurement |-> 1, image |-> 1]

\* No request was received and the tables are empty.
PipelineIdle ==
    /\ req = [r \in Requests |-> NoRequest]
    /\ db = EmptyDB
    /\ next_id = FirstIds
    /\ analyzer_state = << >>

\* The update slot of a bot that has handled nothing yet.
NoUpdate == [handler |-> NoValue, text |-> << >>, outcome |-> NoValue]

\* The bot's conversation before any update: aiogram's default state (None),
\* nothing sent to the API.
BotIdle ==
    /\ fsm_state = NoValue
    /\ posts = << >>
    /\ handled = NoUpdate
    /\ invalid_run = 0

\* The fields of the dict get_statistics returns, risk_distribution laid
\* flat; the averages in hundredths of a degree.
NoStatistics ==
    [total_measurements |-> 0, message |-> FALSE,
     avg_asymmetry |-> 0, max_asymmetry |-> 0,
     avg_left_temp |-> 0, avg_right_temp |-> 0,
     normal |-> 0, elevated |-> 0, high |-> 0]

NoStatsCall == [pc |-> "idle", measurements |-> {}, response |-> NoStatistics]

\* No call of the statistics endpoint is under way.
StatsIdle == stats = NoStatsCall

\* The locals of a call of the simulate endpoint.
NoSimulation == [pc |-> "idle", temps |-> << >>, error |-> NoValue]

\* The simulated device before it is read, no call of the simulate endpoint.
DeviceIdle ==
    /\ rolls = << >>
    /\ simulate = NoSimulation

\* The engine before any reading was handed to it.
EngineIdle ==
    /\ temps = << >>
    /\ metrics = NoMetrics
    /\ anomaly_zones = << >>
    /\ called = {}

InitRisk ==
    /\ settings = Settings
    /\ BotIdle
    /\ StatsIdle
    /\ DeviceIdle
    /\ asymmetry \in AsymmetryInputs
    /\ max_temp \in MaxTempInputs
    /\ classified = Unclassified
    /\ EngineIdle
    /\ LLMIdle
    /\ ImageIdle
    /\ PipelineIdle

ClassifyRisk ==
    /\ classified = Unclassified
    /\ classified' = classify_risk(asymmetry, max_temp)
    /\ UNCHANGED <<asymmetry, max_temp>>
    /\ UNCHANGED notRisk

NextRisk == ClassifyRisk

SpecRisk == InitRisk /\ [][NextRisk]_vars

(***************************************************************************)
(* Direct calls of calculate_metrics and find_anomaly_zones on a reading.  *)
(***************************************************************************)
\* Zone temperatures offered to the left and to the right side, in tenths.
LeftValues == {360, 368, 393}

RightValues == {376, 377, 384}

Readings ==
    {l \o r : l \in [1..4 -> LeftValues], r \in [1..4 -> RightValues]}

RiskIdle ==
    /\ asymmetry = Zero
    /\ max_temp = Zero
    /\ classified = Unclassified

InitEngine ==
    /\ settings = Settings
    /\ BotIdle
    /\ StatsIdle
    /\ DeviceIdle
    /\ temps \in Readings
    /\ metrics = NoMetrics
    /\ anomaly_zones = << >>
    /\ called = {}
    /\ RiskIdle
    /\ LLMIdle
    /\ ImageIdle
    /\ PipelineIdle

CalculateMetrics ==
    /\ temps # << >>
    /\ "calculate_metrics" \notin called
    /\ metrics' = calculate_metrics(Floats(temps))
    /\ called' = called \cup {"calculate_metrics"}
    /\ UNCHANGED <<temps, anomaly_zones>>
    /\ UNCHANGED notEngine

FindAnomalyZones ==
    /\ temps # << >>
    /\ "find_anomaly_zones" \notin called
    /\ anomaly_zones' = find_anomaly_zones(Floats(temps))
    /\ called' = called \cup {"find_anomaly_zones"}
    /\ UNCHANGED <<temps, metrics>>
    /\ UNCHANGED notEngine

NextEngine == CalculateMetrics \/ FindAnomalyZones

SpecEngine == InitEngine /\ [][NextEngine]_vars

(***************************************************************************)
(* The engine on readings no schema has validated: the three functions     *)
(* are static methods that take any list of floats.                        *)
(***************************************************************************)
\* Zone values far from body temperature, in tenths: negative, zero, above
\* 45 and beyond every thermometer.
WideLeftValues == {-123, 0, 457}

WideRightValues == {-500, 99999}

WideReadings ==
    {l \o r : l \in [1..4 -> WideLeftValues], r \in [1..4 -> WideRightValues]}

InitWide ==
    /\ settings = Settings
    /\ BotIdle
    /\ StatsIdle
    /\ DeviceIdle
    /\ temps \in WideReadings
    /\ metrics = NoMetrics
    /\ anomaly_zones = << >>
    /\ called = {}
    /\ RiskIdle
    /\ LLMIdle
    /\ ImageIdle
    /\ PipelineIdle

\* classify_risk(metrics["asymmetry"], metrics["max_temp"]), as the callers
\* of the engine call it.
ClassifyMetrics ==
    /\ "calculate_metrics" \in called
    /\ classified = Unclassified
    /\ asymmetry' = FromDecimal(metrics.asymmetry, 100)
    /\ max_temp' = FromDecimal(metrics.max_temp, 100)
    /\ classified' = classify_risk(asymmetry', max_temp')
    /\ UNCHANGED notRisk

NextWide == CalculateMetrics \/ FindAnomalyZones \/ ClassifyMetrics

SpecWide == InitWide /\ [][NextWide]_vars

(***************************************************************************)
(* LLMService.generate_conclusion: one service instance, called up to      *)
(* MaxCalls times.  Each action is one stretch of the coroutine between    *)
(* two of its decision points; what a provider library does (import,       *)
(* construction, request) is chosen by the environment.                    *)
(***************************************************************************)
MaxCalls == 3

MetricsInputs ==
    {[avg_left |-> 3640, avg_right |-> 3685, avg_total |-> 3663,
      asymmetry |-> 45, max_temp |-> 3700, min_temp |-> 3630],
     [avg_left |-> 3600, avg_right |-> 3850, avg_total |-> 3725,
      asymmetry |-> 250, max_temp |-> 3850, min_temp |-> 3600]}

AnomalyInputs ==
    {<< >>,
     << <<"moderate asymmetry", 60>> >>,
     << <<"significant asymmetry", 250>>, <<"elevated temperature", 385>> >>}

ArgsInputs ==
    [metrics : MetricsInputs, risk_level : RiskLevels, anomalies : AnomalyInputs]

\* What a request to a provider can end in.
RequestOutcomes == {"text", "empty", "exception", "timeout"}

\* The texts the providers produce.
OpenAIText == <<Lit("text generated by OpenAI")>>

GeminiText == <<Lit("text generated by Gemini")>>

\* LLMService.__init__: the credentials come from the environment.
InitLLM ==
    /\ settings = Settings
    /\ BotIdle
    /\ StatsIdle
    /\ DeviceIdle
    /\ openai_key \in BOOLEAN
    /\ gemini_key \in BOOLEAN
    /\ openai_client = NoClient
    /\ gemini_model = NoClient
    /\ llm_pc = "idle"
    /\ llm_args = NoArgs
    /\ llm_result = NoText
    /\ attempts = << >>
    /\ constructions = NoConstructions
    /\ calls = 0
    /\ remembered = NoRemembered
    /\ built_in = NoConstructions
    /\ RiskIdle
    /\ EngineIdle
    /\ ImageIdle
    /\ PipelineIdle

\* A caller starts generate_conclusion(metrics, risk_level, anomalies).
StartCall ==
    /\ llm_pc = "idle"
    /\ calls < MaxCalls
    /\ \E args \in ArgsInputs : llm_args' = args
    /\ calls' = calls + 1
    /\ llm_pc' = "openai"
    /\ llm_result' = NoText
    /\ attempts' = << >>
    /\ UNCHANGED <<openai_key, gemini_key, openai_client, gemini_model, constructions>>
    /\ UNCHANGED <<remembered, built_in>>
    /\ UNCHANGED notLLM

\* "if self.openai_key:" is false.
OpenAISkipped ==
    /\ llm_pc = "openai"
    /\ ~openai_key
    /\ llm_pc' = "gemini"
    /\ UNCHANGED <<openai_key, gemini_key, openai_client, gemini_model,
                   llm_args, llm_result, attempts, constructions, calls>>
    /\ UNCHANGED <<remembered, built_in>>
    /\ UNCHANGED notLLM

\* _get_openai_client: the import raises ImportError, which is swallowed;
\* the client stays None and generate_conclusion_openai returns None.
OpenAIImportFails ==
    /\ llm_pc = "openai"
    /\ openai_key
    /\ openai_client = NoClient
    /\ attempts' = Append(attempts, "openai")
    /\ llm_pc' = "gemini"
    /\ UNCHANGED <<openai_key, gemini_key, openai_client, gemini_model,
                   llm_args, llm_result, constructions, calls>>
    /\ UNCHANGED <<remembered, built_in>>
    /\ UNCHANGED notLLM

\* _get_openai_client: OpenAI(api_key=...) raises; only ImportError is
\* caught there and the call is outside the try of
\* generate_conclusion_openai, so the exception leaves generate_conclusion.
OpenAIConstructionRaises ==
    /\ llm_pc = "openai"
    /\ openai_key
    /\ openai_client = NoClient
    /\ attempts' = Append(attempts, "openai")
    /\ llm_pc' = "raised"
    /\ UNCHANGED <<openai_key, gemini_key, openai_client, gemini_model,
                   llm_args, llm_result, constructions, calls>>
    /\ UNCHANGED <<remembered, built_in>>
    /\ UNCHANGED notLLM

\* OpenAIRequest without "if result: return result": the OpenAI text is kept
\* but the call goes on to Gemini.
OpenAIRequestFallsThrough ==
    /\ llm_pc = "openai"
    /\ openai_key
    /\ openai_client' = "client"
    /\ constructions' =
           IF openai_client = NoClient
               THEN [constructions EXCEPT !.openai = @ + 1]
               ELSE constructions
    /\ built_in' =
           IF openai_client = NoClient
               THEN [built_in EXCEPT !.openai = calls]
               ELSE built_in
    /\ attempts' = Append(attempts, "openai")
    /\ \E outcome \in RequestOutcomes :
           IF outcome = "text"
               THEN llm_result' = OpenAIText /\ llm_pc' = "gemini"
               ELSE llm_result' = llm_result /\ llm_pc' = "gemini"
    /\ UNCHANGED <<openai_key, gemini_key, gemini_model, llm_args, calls>>
    /\ UNCHANGED remembered
    /\ UNCHANGED notLLM

\* OpenAIRequest constructing a client at every use.
OpenAIRequestRebuilds ==
    /\ llm_pc = "openai"
    /\ openai_key
    /\ openai_client' = "client"
    /\ constructions' = [constructions EXCEPT !.openai = @ + 1]
    /\ built_in' = [built_in EXCEPT !.openai = calls]
    /\ attempts' = Append(attempts, "openai")
    /\ \E outcome \in RequestOutcomes :
           IF outcome = "text"
               THEN llm_result' = OpenAIText /\ llm_pc' = "returned"
               ELSE llm_result' = llm_result /\ llm_pc' = "gemini"
    /\ UNCHANGED <<openai_key, gemini_key, gemini_model, llm_args, calls>>
    /\ UNCHANGED remembered
    /\ UNCHANGED notLLM

\* generate_conclusion_openai with a client (constructed now or cached):
\* the request returns a text, returns an empty one, raises or times out.
OpenAIRequest ==
    /\ llm_pc = "openai"
    /\ openai_key
    /\ openai_client' = "client"
    /\ constructions' =
           IF openai_client = NoClient
               THEN [constructions EXCEPT !.openai = @ + 1]
               ELSE constructions
    /\ built_in' =
           IF openai_client = NoClient
               THEN [built_in EXCEPT !.openai = calls]
               ELSE built_in
    /\ attempts' = Append(attempts, "openai")
    /\ \E outcome \in RequestOutcomes :
           IF outcome = "text"
               THEN llm_result' = OpenAIText /\ llm_pc' = "returned"
               ELSE llm_result' = llm_result /\ llm_pc' = "gemini"
    /\ UNCHANGED <<openai_key, gemini_key, gemini_model, llm_args, calls>>
    /\ UNCHANGED remembered
    /\ UNCHANGED notLLM

\* "if self.gemini_key:" is false.
GeminiSkipped ==
    /\ llm_pc = "gemini"
    /\ ~gemini_key
    /\ llm_pc' = "rule_based"
    /\ UNCHANGED <<openai_key, gemini_key, openai_client, gemini_model,
                   llm_args, llm_result, attempts, constructions, calls>>
    /\ UNCHANGED <<remembered, built_in>>
    /\ UNCHANGED notLLM

\* _get_gemini_model: the import raises ImportError, which is swallowed.
GeminiImportFails ==
    /\ llm_pc = "gemini"
    /\ gemini_key
    /\ gemini_model = NoClient
    /\ attempts' = Append(attempts, "gemini")
    /\ llm_pc' = "rule_based"
    /\ UNCHANGED <<openai_key, gemini_key, openai_client, gemini_model,
                   llm_args, llm_result, constructions, calls>>
    /\ UNCHANGED <<remembered, built_in>>
    /\ UNCHANGED notLLM

\* _get_gemini_model: genai.configure or GenerativeModel raises; the
\* exception leaves generate_conclusion.
GeminiConstructionRaises ==
    /\ llm_pc = "gemini"
    /\ gemini_key
    /\ gemini_model = NoClient
    /\ attempts' = Append(attempts, "gemini")
    /\ llm_pc' = "raised"
    /\ UNCHANGED <<openai_key, gemini_key, openai_client, gemini_model,
                   llm_args, llm_result, constructions, calls>>
    /\ UNCHANGED <<remembered, built_in>>
    /\ UNCHANGED notLLM

\* generate_conclusion_gemini with a model (constructed now or cached).
GeminiRequest ==
    /\ llm_pc = "gemini"
    /\ gemini_key
    /\ gemini_model' = "model"
    /\ constructions' =
           IF gemini_model = NoClient
               THEN [constructions EXCEPT !.gemini = @ + 1]
               ELSE constructions
    /\ built_in' =
           IF gemini_model = NoClient
               THEN [built_in EXCEPT !.gemini = calls]
               ELSE built_in
    /\ attempts' = Append(attempts, "gemini")
    /\ \E outcome \in RequestOutcomes :
           IF outcome = "text"
               THEN llm_result' = GeminiText /\ llm_pc' = "returned"
               ELSE llm_result' = llm_result /\ llm_pc' = "rule_based"
    /\ UNCHANGED <<openai_key, gemini_key, openai_client, llm_args, calls>>
    /\ UNCHANGED remembered
    /\ UNCHANGED notLLM

\* RuleBasedFallback with a text that carries the running number of the call.
RuleBasedFallbackNumbered ==
    /\ llm_pc = "rule_based"
    /\ llm_result' = generate_rule_based(llm_args.metrics, llm_args.risk_level,
                                         llm_args.anomalies)
                         \o << <<"report number", calls>> >>
    /\ llm_pc' = "returned"
    /\ UNCHANGED <<openai_key, gemini_key, openai_client, gemini_model,
                   llm_args, attempts, constructions, calls>>
    /\ UNCHANGED <<remembered, built_in>>
    /\ UNCHANGED notLLM

\* "return self._generate_rule_based(metrics, risk_level, anomalies)"
RuleBasedFallback ==
    /\ llm_pc = "rule_based"
    /\ llm_result' = generate_rule_based(llm_args.metrics, llm_args.risk_level,
                                         llm_args.anomalies)
    /\ llm_pc' = "returned"
    /\ UNCHANGED <<openai_key, gemini_key, openai_client, gemini_model,
                   llm_args, attempts, constructions, calls>>
    /\ UNCHANGED <<remembered, built_in>>
    /\ UNCHANGED notLLM

\* The caller has the text, or the exception; the service is free again.
\* remembered is a history variable: any one earlier call that no provider
\* answered, with the text it returned, kept for comparison with later calls.
CallEnds ==
    /\ llm_pc \in {"returned", "raised"}
    /\ llm_pc' = "idle"
    /\ remembered' \in
           {remembered} \cup
           (IF llm_pc = "returned" /\ llm_result \notin {OpenAIText, GeminiText}
                THEN {[args |-> llm_args, text |-> llm_result, call |-> calls]}
                ELSE {})
    /\ UNCHANGED <<openai_key, gemini_key, openai_client, gemini_model,
                   llm_args, llm_result, attempts, constructions, calls,
                   built_in>>
    /\ UNCHANGED notLLM

NextLLM ==
    \/ StartCall
    \/ OpenAISkipped
    \/ OpenAIImportFails
    \/ OpenAIConstructionRaises
    \/ OpenAIRequest
    \/ GeminiSkipped
    \/ GeminiImportFails
    \/ GeminiConstructionRaises
    \/ GeminiRequest
    \/ RuleBasedFallback
    \/ CallEnds

SpecLLM == InitLLM /\ [][NextLLM]_vars

(***************************************************************************)
(* analyze_thermal_colors (routers/images.py).  A file either decodes to   *)
(* an image at least 4 pixels wide and 2 high, given here by the mean      *)
(* colour of each tile of its 2x4 grid (integer means, as of uniformly     *)
(* coloured tiles), or some step inside the try block raises.              *)
(* Temperatures are in tenths of a degree.                                 *)
(***************************************************************************)
\* The nearest integer to num/den for num/den that is never half-way.
RoundNearest(num, den) == (2 * num + den) \div (2 * den)

\* "g > r * 0.8".  For integer r the exact product exceeds the float by at
\* most one part in 2^54, so the float product is the integer 4r/5 when
\* that is an integer and is otherwise no integer: the comparison with the
\* integer g is the comparison of 5g with 4r.
GreenShare(r, g) == 5 * g > 4 * r

\* temp = 34.0 + (r / 255.0) * 5.0, minus 0.5 if g > r * 0.8, then
\* round(temp, 1).  In tenths the exact value is 340 + 10r/51 less 5; it is
\* at least 1/102 away from every half-way point k + 1/2, far more than the
\* error of the three float operations, so the rounding is that of the
\* exact value.
TempOfTile(c) ==
    LET adjust == IF GreenShare(c.r, c.g) THEN 5 ELSE 0
    IN  RoundNearest(10 * (34 * 255 + 5 * c.r) - adjust * 255, 255)

\* MappedTemps filling the list column by column.
MappedTempsColumnMajor(tiles) ==
    [k \in 1..8 |-> TempOfTile(tiles[(k - 1) % 2][(k - 1) \div 2])]

\* "for row in range(2): for col in range(4): ... temps.append(...)"
MappedTemps(tiles) ==
    [k \in 1..8 |-> TempOfTile(tiles[(k - 1) \div 4][(k - 1) % 4])]

\* random.random() yields a multiple of 2^-53 in [0, 1); the draws used here
\* are the multiples of 1/DrawGrid among them.
DrawGrid == 1024

\* The float of the draw u/DrawGrid.
DrawFloat(u) == <<0, u * (LimbBase \div DrawGrid), 0, 0>>

\* SimulatedTemp over a span of 2.0 degrees.
SimulatedTempWide(u) ==
    LET x == DrawFloat(u)
    IN  RoundDec(FAdd(FromDecimal(360, 10), DAdd(x, x)), 10)

\* round(36.0 + random.random() * 1.5, 1): the product of a 10-bit draw by
\* 1.5 is exact.
SimulatedTemp(u) ==
    LET x == DrawFloat(u)
    IN  RoundDec(FAdd(FromDecimal(360, 10), DAdd(x, DDiv(x, 2))), 10)

SimulatedTemps(ds) == [k \in 1..8 |-> SimulatedTemp(ds[k])]

\* analyze_thermal_colors with the fallback tagged as the mapping is.
analyze_thermal_colors_OneTag(img, ds) ==
    IF img.decodes
        THEN [temperatures |-> MappedTemps(img.tiles),
              color_data |-> [zones_analyzed |-> 8, method |-> "rgb_mapping"]]
        ELSE [temperatures |-> SimulatedTemps(ds),
              color_data |-> [zones_analyzed |-> 8, method |-> "rgb_mapping",
                              error |-> img.reason]]

\* The dict returned: the try block, or the except branch.
analyze_thermal_colors(img, ds) ==
    IF img.decodes
        THEN [temperatures |-> MappedTemps(img.tiles),
              color_data |-> [zones_analyzed |-> 8, method |-> "rgb_mapping"]]
        ELSE [temperatures |-> SimulatedTemps(ds),
              color_data |-> [zones_analyzed |-> 8, method |-> "simulated",
                              error |-> img.reason]]

\* Tile colours: black, pure red, green exactly 0.8 of red, green above it.
TileColours ==
    {Colour(0, 0, 0), Colour(255, 0, 0), Colour(200, 160, 40), Colour(200, 180, 0)}

DecodedImages ==
    {[decodes |-> TRUE, tiles |-> t, reason |-> NoValue] :
        t \in [0..1 -> [0..3 -> TileColours]]}

\* str(e) of the exception caught.
FailureReasons == {"cannot identify image file", "No module named 'PIL'"}

BrokenImages ==
    {[decodes |-> FALSE, tiles |-> BlankGrid, reason |-> why] : why \in FailureReasons}

\* Draws: the smallest, one half-way between two tenths, the largest.
RandomDraws == {0, DrawGrid \div 2, DrawGrid - 1}

\* random is consulted on the except branch only.
InitImage ==
    /\ settings = Settings
    /\ BotIdle
    /\ StatsIdle
    /\ DeviceIdle
    /\ \/ image \in DecodedImages /\ draws = NoDraws
       \/ image \in BrokenImages /\ draws \in [1..8 -> RandomDraws]
    /\ extracted = NoExtraction
    /\ RiskIdle
    /\ EngineIdle
    /\ LLMIdle
    /\ PipelineIdle

AnalyzeThermalColors ==
    /\ image # NoImage
    /\ extracted = NoExtraction
    /\ extracted' = analyze_thermal_colors(image, draws)
    /\ UNCHANGED <<image, draws>>
    /\ UNCHANGED notImage

NextImage == AnalyzeThermalColors

SpecImage == InitImage /\ [][NextImage]_vars

(***************************************************************************)
(* MeasurementService.create_measurement and upload_thermal_image: the     *)
(* requests of Requests are served side by side, each on its own database  *)
(* session.  A coroutine gives way only at its awaits; here it may also    *)
(* give way between two calls of the engine, which allows every            *)
(* interleaving of the engine functions of two requests.                   *)
(***************************************************************************)
\* Readings posted to create_measurement: a NORMAL, an ELEVATED and a HIGH
\* one, one whose side averages differ by 0.4999999999999929 as floats, and
\* one with even sides and a single zone 0.925 above the mean.
PostedReadings ==
    {<<364, 364, 364, 364, 368, 369, 368, 369>>,
     <<360, 360, 360, 360, 365, 365, 365, 365>>,
     <<360, 360, 360, 360, 385, 385, 385, 385>>,
     <<360, 360, 360, 363, 364, 364, 364, 371>>,
     <<374, 360, 360, 360, 366, 366, 366, 366>>}

ManualSubmissions ==
    {[kind |-> "manual", reading |-> xs, content_type_ok |-> TRUE,
      size_ok |-> TRUE, image |-> NoImage, draws |-> NoDraws] : xs \in PostedReadings}

\* An image whose upper tiles have green at 0.8 of red and whose lower tiles
\* are greener.
TwoRowImage ==
    [decodes |-> TRUE,
     tiles |-> [row \in 0..1 |->
                   [col \in 0..3 |->
                       IF row = 0 THEN Colour(200, 160, 40) ELSE Colour(200, 180, 0)]],
     reason |-> NoValue]

\* Files posted to upload_thermal_image: an image, a file that does not
\* decode, a file that is no image by its content type, a file too large.
ImageSubmissions ==
    {[kind |-> "image", reading |-> << >>, content_type_ok |-> TRUE,
      size_ok |-> TRUE, image |-> TwoRowImage, draws |-> NoDraws],
     [kind |-> "image", reading |-> << >>, content_type_ok |-> TRUE,
      size_ok |-> TRUE,
      image |-> [decodes |-> FALSE, tiles |-> BlankGrid,
                 reason |-> "cannot identify image file"],
      draws |-> <<0, 0, 0, 0, DrawGrid - 1, DrawGrid - 1, DrawGrid - 1, DrawGrid - 1>>],
     [kind |-> "image", reading |-> << >>, content_type_ok |-> FALSE,
      size_ok |-> TRUE, image |-> NoImage, draws |-> NoDraws],
     [kind |-> "image", reading |-> << >>, content_type_ok |-> TRUE,
      size_ok |-> FALSE, image |-> NoImage, draws |-> NoDraws]}

Submissions == ManualSubmissions \cup ImageSubmissions

InitPipeline ==
    /\ settings = Settings
    /\ BotIdle
    /\ StatsIdle
    /\ DeviceIdle
    /\ req \in [Requests -> {[NoRequest EXCEPT !.sub = sub, !.pc = "received"] :
                                sub \in Submissions}]
    /\ db = EmptyDB
    /\ next_id = FirstIds
    /\ analyzer_state = << >>
    /\ RiskIdle
    /\ EngineIdle
    /\ LLMIdle
    /\ ImageIdle

\* create_measurement: "temps = [data.sensor_1, ..., data.sensor_8]"
TempsFromData(r) ==
    /\ req[r].pc = "received"
    /\ req[r].sub.kind = "manual"
    /\ req' = [req EXCEPT ![r].temps = req[r].sub.reading, ![r].pc = "temps"]
    /\ UNCHANGED <<db, next_id, analyzer_state>>
    /\ UNCHANGED notPipeline

\* upload_thermal_image: a content type that is no image, or a content
\* longer than MAX_UPLOAD_SIZE, is answered with status 400.
RejectUpload(r) ==
    /\ req[r].pc = "received"
    /\ req[r].sub.kind = "image"
    /\ ~req[r].sub.content_type_ok \/ ~req[r].sub.size_ok
    /\ req' = [req EXCEPT ![r].pc = "rejected"]
    /\ UNCHANGED <<db, next_id, analyzer_state>>
    /\ UNCHANGED notPipeline

\* upload_thermal_image: the file is saved and analyze_thermal_colors run.
TempsFromImage(r) ==
    /\ req[r].pc = "received"
    /\ req[r].sub.kind = "image"
    /\ req[r].sub.content_type_ok
    /\ req[r].sub.size_ok
    /\ LET analysis_result == analyze_thermal_colors(req[r].sub.image, req[r].sub.draws)
       IN  req' = [req EXCEPT ![r].temps = analysis_result.temperatures,
                              ![r].color_data = analysis_result.color_data,
                              ![r].pc = "temps"]
    /\ UNCHANGED <<db, next_id, analyzer_state>>
    /\ UNCHANGED notPipeline

\* "metrics = analyzer.calculate_metrics(temps)"
RequestMetrics(r) ==
    /\ req[r].pc = "temps"
    /\ req' = [req EXCEPT ![r].metrics = calculate_metrics(Floats(req[r].temps)),
                          ![r].pc = "metrics"]
    /\ UNCHANGED <<db, next_id, analyzer_state>>
    /\ UNCHANGED notPipeline

\* RequestRisk with the asymmetry and the maximum handed over before rounding.
RequestRiskUnrounded(r) ==
    /\ req[r].pc = "metrics"
    /\ LET xs     == Floats(req[r].temps)
           result == classify_risk(RawAsymmetry(AvgLeft(xs), AvgRight(xs)), FMax(xs))
       IN  req' = [req EXCEPT ![r].risk_level = result.risk_level,
                              ![r].anomalies = result.anomalies,
                              ![r].pc = "classified"]
    /\ UNCHANGED <<db, next_id, analyzer_state>>
    /\ UNCHANGED notPipeline

\* "risk_level, anomalies = analyzer.classify_risk(metrics["asymmetry"],
\* metrics["max_temp"])": the arguments are the rounded metrics.
RequestRisk(r) ==
    /\ req[r].pc = "metrics"
    /\ LET result == classify_risk(FromDecimal(req[r].metrics.asymmetry, 100),
                                   FromDecimal(req[r].metrics.max_temp, 100))
       IN  req' = [req EXCEPT ![r].risk_level = result.risk_level,
                              ![r].anomalies = result.anomalies,
                              ![r].pc = "classified"]
    /\ UNCHANGED <<db, next_id, analyzer_state>>
    /\ UNCHANGED notPipeline

\* RequestZones with the list kept on the analyzer object and extended by
\* every call.
RequestZonesShared(r) ==
    /\ req[r].pc = "classified"
    /\ analyzer_state' = analyzer_state \o find_anomaly_zones(Floats(req[r].temps))
    /\ req' = [req EXCEPT ![r].anomaly_zones = analyzer_state',
                          ![r].pc = "zones"]
    /\ UNCHANGED <<db, next_id>>
    /\ UNCHANGED notPipeline

\* "anomaly_zones = analyzer.find_anomaly_zones(temps)"
RequestZones(r) ==
    /\ req[r].pc = "classified"
    /\ req' = [req EXCEPT ![r].anomaly_zones = find_anomaly_zones(Floats(req[r].temps)),
                          ![r].pc = "zones"]
    /\ UNCHANGED <<db, next_id, analyzer_state>>
    /\ UNCHANGED notPipeline

\* "conclusion = analyzer.generate_conclusion(metrics, risk_level, anomalies)"
RequestConclusion(r) ==
    /\ req[r].pc = "zones"
    /\ req' = [req EXCEPT ![r].conclusion =
                              generate_conclusion(req[r].metrics, req[r].risk_level,
                                                  req[r].anomalies),
                          ![r].pc = "concluded"]
    /\ UNCHANGED <<db, next_id, analyzer_state>>
    /\ UNCHANGED notPipeline

\* The Measurement built from the locals; its columns are floats, the
\* metrics are stored as the floats they are.
MeasurementOf(q, id) ==
    [id |-> id,
     device_id |-> IF q.sub.kind = "image" THEN "image_upload" ELSE "manual",
     source |-> q.sub.kind,
     sensors |-> q.temps,
     avg_left |-> q.metrics.avg_left,
     avg_right |-> q.metrics.avg_right,
     asymmetry |-> q.metrics.asymmetry,
     max_temp |-> q.metrics.max_temp]

\* "db.add(measurement); await db.flush()": the row is inserted in the
\* transaction of the session and gets its primary key.
Flush(r) ==
    /\ req[r].pc = "concluded"
    /\ req' = [req EXCEPT ![r].measurement = MeasurementOf(req[r], next_id.measurement),
                          ![r].pc = "flushed"]
    /\ next_id' = [next_id EXCEPT !.measurement = @ + 1]
    /\ UNCHANGED <<db, analyzer_state>>
    /\ UNCHANGED notPipeline

\* The flush raises (the database is locked, the disk is full): the
\* exception leaves the handler and the session is closed.
FlushFails(r) ==
    /\ req[r].pc = "concluded"
    /\ req' = [req EXCEPT ![r].pc = "failed"]
    /\ UNCHANGED <<db, next_id, analyzer_state>>
    /\ UNCHANGED notPipeline

\* AnalysisOf storing the descriptions of classify_risk as the zones.
AnalysisOfDescriptions(q) ==
    [measurement_id |-> q.measurement.id,
     risk_level |-> q.risk_level,
     anomaly_zones |-> q.anomalies,
     llm_conclusion |-> q.conclusion]

\* The AnalysisResult built from the locals.
AnalysisOf(q) ==
    [measurement_id |-> q.measurement.id,
     risk_level |-> q.risk_level,
     anomaly_zones |-> q.anomaly_zones,
     llm_conclusion |-> q.conclusion]

\* The ThermalImage built by upload_thermal_image.
ThermalImageOf(q, id) ==
    [id |-> id,
     measurement_id |-> q.measurement.id,
     processed |-> TRUE,
     extracted_temps |-> q.temps,
     color_analysis |-> q.color_data]

\* "db.add(analysis); await db.commit()", with the ThermalImage added
\* before by upload_thermal_image: the rows of the session are committed
\* together.
Commit(r) ==
    /\ req[r].pc = "flushed"
    /\ db' = [measurements |-> db.measurements \cup {req[r].measurement},
              analyses |-> db.analyses \cup {AnalysisOf(req[r])},
              images |-> IF req[r].sub.kind = "image"
                             THEN db.images \cup {ThermalImageOf(req[r], next_id.image)}
                             ELSE db.images]
    /\ next_id' = IF req[r].sub.kind = "image"
                      THEN [next_id EXCEPT !.image = @ + 1]
                      ELSE next_id
    /\ req' = [req EXCEPT ![r].pc = "committed"]
    /\ UNCHANGED analyzer_state
    /\ UNCHANGED notPipeline

\* The commit raises: the transaction is rolled back when the session is
\* closed and no row of the request is kept.
CommitFails(r) ==
    /\ req[r].pc = "flushed"
    /\ req' = [req EXCEPT ![r].pc = "failed"]
    /\ UNCHANGED <<db, next_id, analyzer_state>>
    /\ UNCHANGED notPipeline

\* The dict returned by create_measurement, resp. upload_thermal_image.
ResponseOf(q, image_id) ==
    IF q.sub.kind = "manual"
        THEN [measurement_id |-> q.measurement.id,
              metrics |-> q.metrics,
              risk_level |-> q.risk_level,
              anomalies |-> q.anomalies,
              anomaly_zones |-> q.anomaly_zones,
              conclusion |-> q.conclusion]
        ELSE [image_id |-> image_id,
              measurement_id |-> q.measurement.id,
              extracted_temps |-> q.temps,
              metrics |-> q.metrics,
              risk_level |-> q.risk_level,
              conclusion |-> q.conclusion]

\* The primary key of the ThermalImage committed for a measurement.
ImageIdOf(measurement_id) ==
    IF \E row \in db.images : row.measurement_id = measurement_id
        THEN (CHOOSE row \in db.images : row.measurement_id = measurement_id).id
        ELSE 0

\* create_measurement refreshes the measurement and returns;
\* upload_thermal_image returns.
Respond(r) ==
    /\ req[r].pc = "committed"
    /\ req' = [req EXCEPT ![r].response =
                              ResponseOf(req[r], ImageIdOf(req[r].measurement.id)),
                          ![r].pc = "responded"]
    /\ UNCHANGED <<db, next_id, analyzer_state>>
    /\ UNCHANGED notPipeline

\* create_measurement: "await self.db.refresh(measurement)" raises after the
\* commit.
RefreshFails(r) ==
    /\ req[r].pc = "committed"
    /\ req[r].sub.kind = "manual"
    /\ req' = [req EXCEPT ![r].pc = "failed"]
    /\ UNCHANGED <<db, next_id, analyzer_state>>
    /\ UNCHANGED notPipeline

NextPipeline ==
    \E r \in Requests :
        \/ TempsFromData(r)
        \/ RejectUpload(r)
        \/ TempsFromImage(r)
        \/ RequestMetrics(r)
        \/ RequestRisk(r)
        \/ RequestZones(r)
        \/ RequestConclusion(r)
        \/ Flush(r)
        \/ FlushFails(r)
        \/ Commit(r)
        \/ CommitFails(r)
        \/ Respond(r)
        \/ RefreshFails(r)

SpecPipeline == InitPipeline /\ [][NextPipeline]_vars

(***************************************************************************)
(* Properties of classify_risk (SpecRisk).                                 *)
(***************************************************************************)
\* The order NORMAL < ELEVATED < HIGH.
Rank(level) == IF level = "NORMAL" THEN 0 ELSE IF level = "ELEVATED" THEN 1 ELSE 2

Classified == classified # Unclassified

AsymHigh == DGeq(asymmetry, Setting(ASYMMETRY_ELEVATED))

AsymElevated == DGeq(asymmetry, Setting(ASYMMETRY_NORMAL))

TempHigh == DGeq(max_temp, Setting(TEMP_ELEVATED_MAX))

TempElevated == DGeq(max_temp, Setting(TEMP_NORMAL_MAX))

\* C1: the level is HIGH iff asymmetry >= 1.0 or max_temp >= 38.0, ELEVATED
\* iff it is not HIGH and asymmetry >= 0.5 or max_temp >= 37.5, NORMAL
\* otherwise, and always one of the three levels.
C1_LevelRule ==
    Classified =>
        /\ classified.risk_level \in RiskLevels
        /\ classified.risk_level = "HIGH" <=> (AsymHigh \/ TempHigh)
        /\ classified.risk_level = "ELEVATED" <=>
               (~(AsymHigh \/ TempHigh) /\ (AsymElevated \/ TempElevated))
        /\ classified.risk_level = "NORMAL" <=>
               (~AsymHigh /\ ~TempHigh /\ ~AsymElevated /\ ~TempElevated)

\* A symmetric but hot reading classified HIGH by the temperature axis alone.
C1_Witness ==
    /\ Classified
    /\ asymmetry = Zero
    /\ TempHigh
    /\ classified.risk_level = "HIGH"

\* C2: the thresholds are inclusive lower bounds: exactly 0.5 / 37.5 gives
\* ELEVATED and exactly 1.0 / 38.0 gives HIGH while the other axis is below
\* its first threshold, and the largest float below each threshold gives the
\* lower level.
C2_InclusiveThresholds ==
    Classified =>
        /\ ~TempElevated =>
              /\ asymmetry = Setting(ASYMMETRY_NORMAL) => classified.risk_level = "ELEVATED"
              /\ asymmetry = Setting(ASYMMETRY_ELEVATED) => classified.risk_level = "HIGH"
              /\ asymmetry = Below(Setting(ASYMMETRY_NORMAL)) => classified.risk_level = "NORMAL"
              /\ asymmetry = Below(Setting(ASYMMETRY_ELEVATED)) => classified.risk_level = "ELEVATED"
        /\ ~AsymElevated =>
              /\ max_temp = Setting(TEMP_NORMAL_MAX) => classified.risk_level = "ELEVATED"
              /\ max_temp = Setting(TEMP_ELEVATED_MAX) => classified.risk_level = "HIGH"
              /\ max_temp = Below(Setting(TEMP_NORMAL_MAX)) => classified.risk_level = "NORMAL"
              /\ max_temp = Below(Setting(TEMP_ELEVATED_MAX)) => classified.risk_level = "ELEVATED"

\* Asymmetry exactly 0.5 under a cool maximum, classified ELEVATED.
C2_Witness ==
    /\ Classified
    /\ asymmetry = Setting(ASYMMETRY_NORMAL)
    /\ ~TempElevated
    /\ classified.risk_level = "ELEVATED"

\* C3: raising either argument while the other is held never lowers the level.
C3_Monotone ==
    Classified =>
        /\ \A a2 \in AsymmetryInputs :
               DGeq(a2, asymmetry) =>
                   Rank(classified.risk_level) <= Rank(classify_risk(a2, max_temp).risk_level)
        /\ \A t2 \in MaxTempInputs :
               DGeq(t2, max_temp) =>
                   Rank(classified.risk_level) <= Rank(classify_risk(asymmetry, t2).risk_level)

\* A NORMAL result that a larger maximum alone lifts to HIGH.
C3_Witness ==
    /\ Classified
    /\ classified.risk_level = "NORMAL"
    /\ \E t2 \in MaxTempInputs :
           DGeq(t2, max_temp) /\ classify_risk(asymmetry, t2).risk_level = "HIGH"

\* The kinds of the descriptions returned, in list order.
Kinds(list) == [i \in 1..Len(list) |-> list[i][1]]

\* C4: the list holds at most one asymmetry entry followed by at most one
\* temperature entry: 'significant' from 1.0, 'moderate' in [0.5, 1.0), none
\* below 0.5; 'elevated' from 38.0, 'above-normal' in [37.5, 38.0), none
\* below 37.5.
C4_DescriptionOrder ==
    Classified =>
        Kinds(classified.anomalies) =
            (IF AsymHigh THEN <<"significant asymmetry">>
             ELSE IF AsymElevated THEN <<"moderate asymmetry">>
             ELSE << >>)
            \o
            (IF TempHigh THEN <<"elevated temperature">>
             ELSE IF TempElevated THEN <<"above-normal temperature">>
             ELSE << >>)

\* Both axes raised: a moderate-asymmetry entry before an elevated-temperature one.
C4_Witness ==
    /\ Classified
    /\ Kinds(classified.anomalies) = <<"moderate asymmetry", "elevated temperature">>

(***************************************************************************)
(* Properties of calculate_metrics and find_anomaly_zones (SpecEngine).    *)
(* The right-hand sides are exact: they are computed on the tenths         *)
(* entered, in integers, not on floats.                                    *)
(***************************************************************************)
RECURSIVE SumTenths(_)
SumTenths(reading) ==
    IF reading = << >> THEN 0
    ELSE reading[1] + SumTenths(Tail(reading))

Abs(n) == IF n < 0 THEN -n ELSE n

LeftSum == SumTenths(SubSeq(temps, 1, 4))

RightSum == SumTenths(SubSeq(temps, 5, 8))

MetricsDone == "calculate_metrics" \in called

ZonesDone == "find_anomaly_zones" \in called

\* C5: asymmetry is |mean(r[0:4]) - mean(r[4:8])| of the unrounded side
\* means, rounded to 2 decimals: in hundredths the exact difference is
\* 5 * |LeftSum - RightSum| / 2, and asymmetry is within half a hundredth.
C5_AsymmetryOfUnroundedMeans ==
    MetricsDone =>
        Abs(2 * metrics.asymmetry - 5 * Abs(LeftSum - RightSum)) <= 1

\* A reading where the difference of the rounded avg_left and avg_right
\* outputs is another value than the asymmetry returned.
C5_Witness ==
    /\ MetricsDone
    /\ Abs(2 * metrics.asymmetry - 5 * Abs(LeftSum - RightSum)) <= 1
    /\ metrics.asymmetry # Abs(metrics.avg_left - metrics.avg_right)

\* round((avg_left + avg_right) / 2, 2) evaluated on the returned fields.
TotalOfReturned ==
    Round2(DDiv(FAdd(FromDecimal(metrics.avg_left, 100),
                     FromDecimal(metrics.avg_right, 100)), 2))

\* C6: avg_total equals round((avg_left + avg_right) / 2, 2) with avg_left and
\* avg_right the values returned in the same result.
C6_TotalOfReturnedAverages ==
    MetricsDone => metrics.avg_total = TotalOfReturned

\* C6 amended: avg_total is the mean of the unrounded side means, rounded to
\* 2 decimals: in hundredths the exact mean is 5 * (LeftSum + RightSum) / 4,
\* and avg_total is within half a hundredth of it.
C6_TotalOfUnroundedMeans ==
    MetricsDone =>
        Abs(4 * metrics.avg_total - 5 * (LeftSum + RightSum)) <= 2

\* A reading where the returned avg_total is not what the returned avg_left
\* and avg_right give.
C6_Witness ==
    /\ MetricsDone
    /\ Abs(4 * metrics.avg_total - 5 * (LeftSum + RightSum)) <= 2
    /\ metrics.avg_total # TotalOfReturned

\* Zone i is listed in anomaly_zones.
Listed(i) == \E k \in 1..Len(anomaly_zones) : anomaly_zones[k][1] = zone_names[i]

\* zones[i] - mean(zones) > 0.8, exactly: 8 * zones[i] - sum > 8 * 8 tenths.
ExceedsMargin(i) == 8 * temps[i] - SumTenths(temps) > 8 * ZoneMargin

\* C7: zone i is emitted iff zones[i] minus the flat mean of the 8 values is
\* strictly greater than 0.8; a deviation of exactly 0.8 is never emitted.
C7_FlaggedIffAboveMargin ==
    ZonesDone => \A i \in 1..8 : Listed(i) <=> ExceedsMargin(i)

\* Position of a label in the fixed table.
PositionOf(label) == CHOOSE i \in 1..8 : zone_names[i] = label

\* The positions whose deviation passes the test of the loop.
FlaggedIn(xs, avg_temp) ==
    {i \in 1..Len(xs) : IsAnomalous(Deviation(xs[i], avg_temp))}

FlaggedPositions(xs) == FlaggedIn(xs, AvgTemp(xs))

\* The entries are in increasing zone position, one per flagged position,
\* each carrying the label of its position.
OrderedFor(flagged) ==
    /\ \A k \in 1..Len(anomaly_zones) :
           \E i \in 1..8 : anomaly_zones[k][1] = zone_names[i]
    /\ \A k \in 1..(Len(anomaly_zones) - 1) :
           PositionOf(anomaly_zones[k][1]) < PositionOf(anomaly_zones[k + 1][1])
    /\ \A i \in 1..8 :
           Cardinality({k \in 1..Len(anomaly_zones) : anomaly_zones[k][1] = zone_names[i]})
               = IF i \in flagged THEN 1 ELSE 0

InZoneOrder == OrderedFor(FlaggedPositions(Floats(temps)))

LeftEqual == \A i \in 1..4 : temps[i] = temps[1]

RightEqual == \A i \in 5..8 : temps[i] = temps[5]

\* Every right zone hotter than the left zones by more than 1.6.
RightHotter == \A i \in 5..8 : temps[i] - temps[1] > 2 * ZoneMargin

RightLabels == SubSeq(zone_names, 5, 8)

\* C8: entries in increasing position with the label of their position, and
\* for equal left zones with every right zone hotter by more than 1.6,
\* exactly the four right-side labels.
C8_OrderedAndRightSide ==
    ZonesDone =>
        /\ InZoneOrder
        /\ (LeftEqual /\ RightHotter) => Kinds(anomaly_zones) = RightLabels

\* C8 amended: the same, for right zones that are also equal to one another.
C8_OrderedAndEqualRightSide ==
    ZonesDone =>
        /\ InZoneOrder
        /\ (LeftEqual /\ RightEqual /\ RightHotter) => Kinds(anomaly_zones) = RightLabels

\* Four equal left zones, four equal right zones hotter by more than 1.6:
\* the four right-side labels and no other.
C8_Witness ==
    /\ ZonesDone
    /\ LeftEqual /\ RightEqual /\ RightHotter
    /\ Kinds(anomaly_zones) = RightLabels

(***************************************************************************)
(* Properties of LLMService.generate_conclusion (SpecLLM).                 *)
(***************************************************************************)
\* The call returned a text that no provider produced.
ReturnedFallback ==
    /\ llm_pc = "returned"
    /\ llm_result \notin {OpenAIText, GeminiText}

\* C9: when every provider is unavailable or fails, the text returned is the
\* text the synchronous rule-based generate_conclusion gives for the same
\* (metrics, risk_level, anomalies), at every risk level.
C9_FallbackIsRuleBasedText ==
    ReturnedFallback =>
        llm_result = generate_conclusion(llm_args.metrics, llm_args.risk_level,
                                         llm_args.anomalies)

\* C10: no failure of a provider attempt leaves the generator: a missing
\* credential, a failed client construction, an exception, a timeout and an
\* empty response all fall through, and the call ends by returning a text.
C10_NoFailurePropagates ==
    /\ llm_pc # "raised"
    /\ llm_pc = "returned" => llm_result # NoText

\* The providers attempted so far in the current call, as a set.
Attempted == {attempts[i] : i \in 1..Len(attempts)}

\* C11: within one call the providers are attempted in the order OpenAI then
\* Gemini, each at most once; Gemini is attempted only when the OpenAI stage
\* is over without a text; and a text returned by OpenAI is the result of the
\* call with no attempt on Gemini.
C11_ProviderOrder ==
    /\ attempts \in {<< >>, <<"openai">>, <<"gemini">>, <<"openai", "gemini">>}
    /\ "gemini" \in Attempted => (llm_pc # "openai" /\ llm_result # OpenAIText)
    /\ llm_result = OpenAIText =>
           (attempts = <<"openai">> /\ llm_pc \in {"returned", "idle"})

\* A call in which OpenAI was attempted and gave no text, and Gemini, tried
\* next, gave the text returned.
C11_Witness ==
    /\ llm_pc = "returned"
    /\ attempts = <<"openai", "gemini">>
    /\ llm_result = GeminiText

\* C12: two calls that no provider answers and that are given the same
\* (metrics, risk_level, anomalies) return the same text, whatever calls were
\* made between them: the text returned now equals the text of any earlier
\* such call with the same arguments.
C12_SameInputsSameText ==
    (ReturnedFallback /\ remembered # NoRemembered /\ remembered.args = llm_args) =>
        llm_result = remembered.text

\* The third call repeats the arguments of the first, a second call having
\* been made between them, and returns the text of the first.
C12_Witness ==
    /\ ReturnedFallback
    /\ calls = 3
    /\ remembered.call = 1
    /\ remembered.args = llm_args
    /\ remembered.text = llm_result

Extracted == extracted # NoExtraction

\* C13: extraction returns exactly 8 values for every input and raises
\* nothing, and on the failure path every value v has 36.0 <= v < 37.5.
C13_EightValuesInRange ==
    Extracted =>
        /\ Len(extracted.temperatures) = 8
        /\ ~image.decodes =>
               \A k \in 1..8 :
                   /\ 360 <= extracted.temperatures[k]
                   /\ extracted.temperatures[k] < 375

\* C13 amended: the same with 36.0 <= v <= 37.5 on the failure path.
C13_EightValuesInClosedRange ==
    Extracted =>
        /\ Len(extracted.temperatures) = 8
        /\ ~image.decodes =>
               \A k \in 1..8 :
                   /\ 360 <= extracted.temperatures[k]
                   /\ extracted.temperatures[k] <= 375

\* A file that does not decode, with the smallest draw first and the largest
\* last: 8 values from 36.0 to 37.5.
C13_Witness ==
    /\ Extracted
    /\ ~image.decodes
    /\ Len(extracted.temperatures) = 8
    /\ extracted.temperatures[1] = 360
    /\ extracted.temperatures[8] = 375

\* A value in tenths against the temperature of a tile of mean red r:
\* within half a tenth of 34.0 + (r/255)*5.0 less the deduction, exactly:
\* 102 times the value in tenths is within 51 of 102*340 + 20r - 102*deduction.
NearestTenth(value, r, deduction) ==
    Abs(102 * value - (102 * 340 + 20 * r - 102 * deduction)) <= 51

\* C14: on the successful path output value 4*row + col is the temperature
\* of tile (row, col): 34.0 + (red/255)*5.0, less 0.5 if green >= 0.8 x red,
\* the boundary green = 0.8 x red included, rounded to 1 decimal.
C14_TileFormulaInclusive ==
    (Extracted /\ image.decodes) =>
        \A row \in 0..1 : \A col \in 0..3 :
            LET c == image.tiles[row][col]
            IN  NearestTenth(extracted.temperatures[4 * row + col + 1], c.r,
                             IF 5 * c.g >= 4 * c.r THEN 5 ELSE 0)

\* C14 amended: the same with the deduction made only if green > 0.8 x red,
\* the boundary excluded.
C14_TileFormulaStrict ==
    (Extracted /\ image.decodes) =>
        \A row \in 0..1 : \A col \in 0..3 :
            LET c == image.tiles[row][col]
            IN  NearestTenth(extracted.temperatures[4 * row + col + 1], c.r,
                             IF 5 * c.g > 4 * c.r THEN 5 ELSE 0)

\* An image with a black tile first, a tile with green exactly 0.8 of red
\* second and a greener tile last: 34.0 and 37.9 without deduction, 37.4
\* with it.
C14_Witness ==
    /\ Extracted
    /\ image.decodes
    /\ image.tiles[0][0] = Colour(0, 0, 0)
    /\ image.tiles[0][1] = Colour(200, 160, 40)
    /\ image.tiles[1][3] = Colour(200, 180, 0)
    /\ extracted.temperatures[1] = 340
    /\ extracted.temperatures[2] = 379
    /\ extracted.temperatures[8] = 374

\* The metadata of a decoded image carries `tag` and no failure reason, that
\* of a failed extraction "simulated" and the reason; both carry 8 zones.
MetadataTagged(tag) ==
    /\ extracted.color_data.zones_analyzed = 8
    /\ image.decodes =>
           /\ extracted.color_data.method = tag
           /\ "error" \notin DOMAIN extracted.color_data
    /\ ~image.decodes =>
           /\ extracted.color_data.method = "simulated"
           /\ "error" \in DOMAIN extracted.color_data
           /\ extracted.color_data.error = image.reason

\* C15: the metadata always has zones_analyzed = 8 and a method tag that is
\* "color-mapping" on the successful path and "simulated" on the failure
\* path, with the failure reason on failure and none on success.
C15_MetadataColorMapping == Extracted => MetadataTagged("color-mapping")

\* C15 amended: the same with the tag "rgb_mapping" on the successful path.
C15_MetadataRgbMapping == Extracted => MetadataTagged("rgb_mapping")

\* A failed extraction tagged "simulated" with the message of its exception.
C15_Witness ==
    /\ Extracted
    /\ ~image.decodes
    /\ extracted.color_data =
           [zones_analyzed |-> 8, method |-> "simulated", error |-> image.reason]

(***************************************************************************)
(* Properties of create_measurement and upload_thermal_image               *)
(* (SpecPipeline).                                                         *)
(***************************************************************************)
\* The request has its conclusion.
Concluded(r) == req[r].conclusion # NoText

\* The sentences that say the system does not replace a consultation or a
\* diagnosis by a professional.
DisclaimerLines ==
    {Lit("and does not replace a specialist consultation"),
     Lit("and does not replace the consultation of a mammologist"),
     Lit("and does NOT replace professional medical diagnostics")}

HasDisclaimer(text) == \E i \in 1..Len(text) : text[i] \in DisclaimerLines

\* C16: the rule-based conclusion of generate_conclusion contains the
\* disclaimer that the system does not replace a specialist consultation
\* whenever the risk level is ELEVATED or HIGH.
C16_DisclaimerOnRaisedLevels ==
    \A r \in Requests :
        (Concluded(r) /\ req[r].risk_level \in {"ELEVATED", "HIGH"}) =>
            HasDisclaimer(req[r].conclusion)

\* The reading a request hands to the engine: the sensors posted, or the
\* temperatures extracted from the file posted.
ReadingOf(q) ==
    IF q.sub.kind = "manual" THEN q.sub.reading
    ELSE analyze_thermal_colors(q.sub.image, q.sub.draws).temperatures

\* What the engine computes for a reading served alone.
EngineOutput(xs) ==
    LET m == calculate_metrics(Floats(xs))
        c == classify_risk(FromDecimal(m.asymmetry, 100), FromDecimal(m.max_temp, 100))
    IN  [metrics |-> m,
         risk_level |-> c.risk_level,
         anomalies |-> c.anomalies,
         anomaly_zones |-> find_anomaly_zones(Floats(xs)),
         conclusion |-> generate_conclusion(m, c.risk_level, c.anomalies)]

\* The rows committed for a request.
MeasurementsOf(r) == {row \in db.measurements : row.id = req[r].measurement.id}

AnalysesOf(r) == {row \in db.analyses : row.measurement_id = req[r].measurement.id}

\* The response carries the engine output e in each field it has.
ResponseCarries(response, e) ==
    /\ response.metrics = e.metrics
    /\ response.risk_level = e.risk_level
    /\ response.conclusion = e.conclusion
    /\ "anomaly_zones" \in DOMAIN response => response.anomaly_zones = e.anomaly_zones
    /\ "anomalies" \in DOMAIN response => response.anomalies = e.anomalies

AfterZones == {"zones", "concluded", "flushed", "committed", "responded", "failed"}

\* C19: under every interleaving of the engine calls of concurrent requests,
\* the metrics, risk level, anomaly zones and conclusion a request has
\* computed are those the engine computes for its reading alone; the analyzer
\* object holds no state, and the reading and the threshold settings are as
\* they were before the calls.
C19_NoInterference ==
    /\ analyzer_state = << >>
    /\ settings = Settings
    /\ \A r \in Requests :
           LET q == req[r]
               e == EngineOutput(ReadingOf(q))
           IN  /\ q.temps # << >> => q.temps = ReadingOf(q)
               /\ q.metrics # NoMetrics => q.metrics = e.metrics
               /\ q.risk_level # NoValue =>
                      (q.risk_level = e.risk_level /\ q.anomalies = e.anomalies)
               /\ q.pc \in AfterZones => q.anomaly_zones = e.anomaly_zones
               /\ Concluded(r) => q.conclusion = e.conclusion

\* Two requests on different readings, the second at its conclusion with
\* zones flagged while the first is between two of its engine calls.
C19_Witness ==
    /\ req[1].pc = "metrics"
    /\ req[1].metrics # NoMetrics
    /\ req[2].pc = "concluded"
    /\ req[2].anomaly_zones # << >>
    /\ req[1].temps # req[2].temps

(***************************************************************************)
(* Properties of the engine on unvalidated readings (SpecWide).            *)
(***************************************************************************)
\* The largest and the smallest zone of the reading, in tenths.
MaxTenths == CHOOSE m \in {temps[i] : i \in 1..8} : \A i \in 1..8 : temps[i] <= m

MinTenths == CHOOSE m \in {temps[i] : i \in 1..8} : \A i \in 1..8 : m <= temps[i]

\* C18: on every 8-element reading of finite values, negative ones and ones
\* outside [30, 45] included, calculate_metrics, classify_risk and
\* find_anomaly_zones return their result and reject nothing: the metrics
\* are those of the reading, the level is one of the three, the zones listed
\* carry zone labels.
C18_TotalOnAnyReading ==
    /\ MetricsDone =>
           /\ metrics.max_temp = 10 * MaxTenths
           /\ metrics.min_temp = 10 * MinTenths
           /\ Abs(4 * metrics.avg_left - 10 * LeftSum) <= 2
           /\ Abs(4 * metrics.avg_right - 10 * RightSum) <= 2
    /\ Classified =>
           /\ classified.risk_level \in RiskLevels
           /\ Len(classified.anomalies) <= 2
    /\ ZonesDone =>
           \A i \in 1..Len(anomaly_zones) :
               \E n \in 1..8 : anomaly_zones[i][1] = zone_names[n]

\* A reading with a zone at -12.3 and zones at 9999.9: metrics returned with
\* min_temp = -12.3, classified HIGH, the hot zones listed.
C18_Witness ==
    /\ MetricsDone /\ Classified /\ ZonesDone
    /\ temps[1] = -123
    /\ temps[5] = 99999
    /\ metrics.min_temp = -1230
    /\ metrics.max_temp = 999990
    /\ classified.risk_level = "HIGH"
    /\ anomaly_zones # << >>

\* ---------------------------------------------------------------------------
\* telegram_bot/bot.py: the conversation of one chat with the bot.
\*
\* A message text is a sequence of pieces <<kind, value>>: decimal numerals
\* (their value in tenths of a degree), words that are no numerals, the
\* numeral "nan", commands, and the separators between them.  Two pieces
\* that are not separators never stand next to each other.
\* ---------------------------------------------------------------------------

Space == <<"space", 0>>

Comma == <<"comma", 0>>

Numeral(tenths) == <<"number", tenths>>

Word == <<"word", 0>>

NaN == <<"nan", 0>>

\* "/cancel" and "/start"
CancelText == << <<"command", 0>> >>

StartText == << <<"command", 1>> >>

WaitingForTemps == "waiting_for_temps"

WaitingForImage == "waiting_for_image"

\* text.replace(",", " ")
Replaced(text) ==
    [i \in DOMAIN text |-> IF text[i] = Comma THEN Space ELSE text[i]]

\* text.split(): the pieces between runs of whitespace
Split(text) == SelectSeq(text, LAMBDA piece : piece # Space)

\* float(p) succeeds on a numeral and on "nan", and raises ValueError otherwise
Floatable(piece) == piece[1] \in {"number", "nan"}

\* 30 <= t <= 45; every comparison with nan is false
InRange(piece) == piece[1] = "number" /\ 300 <= piece[2] /\ piece[2] <= 450

\* The parsing with the range check left out.
ParseTempsUnranged(text) ==
    LET parts == Split(Replaced(text))
    IN  IF \E i \in DOMAIN parts : ~Floatable(parts[i])
        THEN [error |-> "could_not_convert", temps |-> << >>]
        ELSE IF Len(parts) # 8
        THEN [error |-> "need_8_values", temps |-> << >>]
        ELSE [error |-> NoValue, temps |-> [i \in 1..8 |-> parts[i][2]]]

\* process_temps_input, lines 171-182: the temperatures of a text, or the
\* ValueError raised on the way.
ParseTemps(text) ==
    LET parts == Split(Replaced(text))
    IN  IF \E i \in DOMAIN parts : ~Floatable(parts[i])
        THEN [error |-> "could_not_convert", temps |-> << >>]
        ELSE IF Len(parts) # 8
        THEN [error |-> "need_8_values", temps |-> << >>]
        ELSE IF \E i \in 1..8 : ~InRange(parts[i])
        THEN [error |-> "out_of_range", temps |-> << >>]
        ELSE [error |-> NoValue, temps |-> [i \in 1..8 |-> parts[i][2]]]

\* The JSON body posted to /api/measurements.
Payload(values) == [temps |-> values, source |-> "telegram"]

RECURSIVE Separated(_, _)
\* The pieces written one after the other with a separator between them.
Separated(pieces, sep) ==
    IF Len(pieces) <= 1 THEN pieces
    ELSE <<Head(pieces)>> \o sep \o Separated(Tail(pieces), sep)

Numerals(values) == [i \in DOMAIN values |-> Numeral(values[i])]

\* The longest run of refused texts and the most posts the model follows.
MaxInvalid == 3

MaxPosts == 2

EdgeValues == <<300, 364, 364, 364, 368, 369, 368, 450>>

MidValues == <<364, 365, 363, 364, 368, 370, 369, 367>>

\* Texts the handler accepts: eight values separated by blanks, by commas,
\* and by a comma and a blank.
ValidTexts ==
    {Separated(Numerals(EdgeValues), <<Space>>),
     Separated(Numerals(MidValues), <<Comma>>),
     Separated(Numerals(MidValues), <<Comma, Space>>)}

\* Texts the handler refuses: seven and nine values, a word among the values,
\* a value just below 30 and just above 45, "nan", decimal commas (sixteen
\* pieces), and "/cancel" followed by something.
InvalidTexts ==
    {Separated(Numerals(SubSeq(MidValues, 1, 7)), <<Space>>),
     Separated(Numerals(Append(MidValues, 366)), <<Space>>),
     Separated([Numerals(MidValues) EXCEPT ![3] = Word], <<Space>>),
     Separated([Numerals(EdgeValues) EXCEPT ![1] = Numeral(299)], <<Space>>),
     Separated([Numerals(EdgeValues) EXCEPT ![8] = Numeral(451)], <<Comma>>),
     Separated([Numerals(MidValues) EXCEPT ![5] = NaN], <<Space>>),
     Separated([i \in 1..8 |-> Numeral(360)], <<Comma, Numeral(40), Space>>)
         \o <<Comma, Numeral(40)>>,
     CancelText \o <<Space, Numeral(364)>>}

Texts == ValidTexts \cup InvalidTexts \cup {CancelText}

\* What the API call of an accepted text comes to: status 200 with a usable
\* body, another status, an exception of the HTTP client, and a status 200
\* whose body resp.json() refuses with a JSONDecodeError (a ValueError).
ApiOutcomes == {"ok", "error_status", "raises", "undecodable"}

InitBot ==
    /\ settings = Settings
    /\ fsm_state = NoValue
    /\ posts = << >>
    /\ handled = NoUpdate
    /\ invalid_run = 0
    /\ StatsIdle
    /\ DeviceIdle
    /\ RiskIdle
    /\ EngineIdle
    /\ LLMIdle
    /\ ImageIdle
    /\ PipelineIdle

Update(handler, text, outcome) ==
    [handler |-> handler, text |-> text, outcome |-> outcome]

\* cmd_start: registered before the state handlers, it takes "/start" in
\* every state and does not touch the state.
CmdStart ==
    /\ handled' = Update("cmd_start", StartText, "menu")
    /\ UNCHANGED <<fsm_state, posts, invalid_run>>
    /\ UNCHANGED notBot

\* callback_input_temps: the "input_temps" button.
CallbackInputTemps ==
    /\ fsm_state' = WaitingForTemps
    /\ handled' = Update("callback_input_temps", << >>, "prompted")
    /\ invalid_run' = 0
    /\ UNCHANGED posts
    /\ UNCHANGED notBot

\* process_temps_input on "/cancel" (lines 165-168)
TempsCancelled ==
    /\ fsm_state = WaitingForTemps
    /\ fsm_state' = NoValue
    /\ handled' = Update("process_temps_input", CancelText, "cancelled")
    /\ invalid_run' = 0
    /\ UNCHANGED posts
    /\ UNCHANGED notBot

\* process_temps_input on a text whose parsing raises ValueError
\* (lines 171-182, 217-222): the reply asks to try again.
TempsRefused(text) ==
    /\ fsm_state = WaitingForTemps
    /\ text # CancelText
    /\ ParseTemps(text).error # NoValue
    /\ invalid_run < MaxInvalid
    /\ handled' = Update("process_temps_input", text, ParseTemps(text).error)
    /\ invalid_run' = invalid_run + 1
    /\ UNCHANGED <<fsm_state, posts>>
    /\ UNCHANGED notBot

\* process_temps_input on a text that parses (lines 184-228): the POST, then
\* state.clear() unless a ValueError came out of reading the response.
TempsPosted(text, outcome) ==
    /\ fsm_state = WaitingForTemps
    /\ text # CancelText
    /\ ParseTemps(text).error = NoValue
    /\ Len(posts) < MaxPosts
    /\ posts' = Append(posts, Payload(ParseTemps(text).temps))
    /\ fsm_state' = IF outcome = "undecodable" THEN fsm_state ELSE NoValue
    /\ handled' = Update("process_temps_input", text, outcome)
    /\ invalid_run' = 0
    /\ UNCHANGED notBot

\* process_temps_input on a message without text: message.text is None and
\* line 171 raises AttributeError outside the try block.
TempsWithoutText ==
    /\ fsm_state = WaitingForTemps
    /\ handled' = Update("process_temps_input", << >>, "attribute_error")
    /\ UNCHANGED <<fsm_state, posts, invalid_run>>
    /\ UNCHANGED notBot

\* callback_upload_image: the "upload_image" button.
CallbackUploadImage ==
    /\ fsm_state' = WaitingForImage
    /\ handled' = Update("callback_upload_image", << >>, "prompted")
    /\ invalid_run' = 0
    /\ UNCHANGED posts
    /\ UNCHANGED notBot

\* process_image_upload: both its ends clear the state.
ProcessImageUpload(outcome) ==
    /\ fsm_state = WaitingForImage
    /\ fsm_state' = NoValue
    /\ handled' = Update("process_image_upload", << >>, outcome)
    /\ UNCHANGED <<posts, invalid_run>>
    /\ UNCHANGED notBot

\* cmd_cancel: registered after process_temps_input, it takes "/cancel" in
\* the other states only.
CmdCancel ==
    /\ fsm_state # WaitingForTemps
    /\ fsm_state' = NoValue
    /\ handled' = Update("cmd_cancel", CancelText, "cancelled")
    /\ UNCHANGED <<posts, invalid_run>>
    /\ UNCHANGED notBot

NextBot ==
    \/ CmdStart
    \/ CallbackInputTemps
    \/ TempsCancelled
    \/ \E text \in Texts : TempsRefused(text)
    \/ \E text \in Texts, outcome \in ApiOutcomes : TempsPosted(text, outcome)
    \/ TempsWithoutText
    \/ CallbackUploadImage
    \/ \E outcome \in ApiOutcomes : ProcessImageUpload(outcome)
    \/ CmdCancel

SpecBot == InitBot /\ [][NextBot]_vars

\* ---------------------------------------------------------------------------
\* C21
\* ---------------------------------------------------------------------------

\* The pieces of a text that are not separators.
C21_Written(text) == SelectSeq(text, LAMBDA piece : piece \notin {Space, Comma})

\* The text reads as exactly 8 numbers, each within [30, 45].
C21_EightInRange(text) ==
    LET written == C21_Written(text)
    IN  /\ Len(written) = 8
        /\ \A i \in 1..8 :
              /\ written[i][1] = "number"
              /\ written[i][2] \in 300..450

\* A text message, other than "/cancel", that does not read as 8 numbers
\* within [30, 45] is handled in waiting_for_temps.
C21_InvalidHandled ==
    /\ fsm_state = WaitingForTemps
    /\ handled'.text # << >>
    /\ handled'.text # CancelText
    /\ ~C21_EightInRange(handled'.text)

C21_Stays == posts' = posts /\ fsm_state' = WaitingForTemps

C21_Leaves == fsm_state = WaitingForTemps /\ fsm_state' # WaitingForTemps

C21_ByCancelOrValidInput ==
    /\ handled'.handler = "process_temps_input"
    /\ \/ handled'.text = CancelText
       \/ C21_EightInRange(handled'.text)

\* C21 as stated: in waiting_for_temps an invalid text causes no POST and
\* leaves the state as it is, and the state is left only by "/cancel" or
\* after an input that passed the validation.
C21_RetryUntilCancelOrValid ==
    [][/\ C21_InvalidHandled => C21_Stays
       /\ C21_Leaves => C21_ByCancelOrValidInput]_vars

\* C21 amended: in waiting_for_temps an invalid text causes no POST and leaves
\* the state as it is, however many invalid texts came before it; the state is
\* left only by "/cancel", after an input that passed the validation, or by
\* the upload_image button, which moves the conversation to waiting_for_image.
C21_RetryUntilCancelValidOrUpload ==
    [][/\ C21_InvalidHandled => C21_Stays
       /\ C21_Leaves =>
             \/ C21_ByCancelOrValidInput
             \/ /\ handled'.handler = "callback_upload_image"
                /\ fsm_state' = WaitingForImage]_vars

\* MaxInvalid texts were refused in a row, the conversation still waits and
\* nothing was posted.
C21_Witness ==
    /\ invalid_run = MaxInvalid
    /\ fsm_state = WaitingForTemps
    /\ handled.outcome = "out_of_range"
    /\ posts = << >>

\* ---------------------------------------------------------------------------
\* C22
\* ---------------------------------------------------------------------------

\* The wordings _generate_rule_based puts in for an empty description list.
C22_DefaultWordings ==
    {Lit("minor asymmetry"), Lit("significant temperature asymmetry")}

\* The fallback conclusion text for the output of classify_risk.
C22_FallbackText ==
    generate_rule_based(NoMetrics, classified.risk_level, classified.anomalies)

\* C22: classify_risk returns NORMAL exactly when the description list it
\* returns is empty; for ELEVATED and HIGH the list has one or two entries,
\* and the fallback conclusion text built from this output never holds one
\* of the default anomaly wordings.
C22_NormalIffNoDescriptions ==
    Classified =>
        /\ classified.risk_level = "NORMAL" <=> classified.anomalies = << >>
        /\ classified.risk_level \in {"ELEVATED", "HIGH"}
              => Len(classified.anomalies) \in {1, 2}
        /\ \A i \in DOMAIN C22_FallbackText :
              C22_FallbackText[i] \notin C22_DefaultWordings

\* An ELEVATED result whose only description is the temperature's.
C22_Witness ==
    /\ Classified
    /\ classified.risk_level = "ELEVATED"
    /\ Kinds(classified.anomalies) = <<"above-normal temperature">>

\* ---------------------------------------------------------------------------
\* C23
\* ---------------------------------------------------------------------------

\* The requests that have been given a risk level.
C23_Levelled == {r \in Requests : req[r].risk_level # NoValue}

\* The difference of the side averages and the maximum of a request's
\* reading, before any rounding.
C23_UnroundedAsymmetry(r) ==
    RawAsymmetry(AvgLeft(Floats(req[r].temps)), AvgRight(Floats(req[r].temps)))

C23_UnroundedMax(r) == FMax(Floats(req[r].temps))

\* C23 as stated: the level a pipeline assigns is the level classify_risk
\* gives to the unrounded asymmetry and the unrounded maximum; a reading with
\* an unrounded asymmetry below 0.5 and a maximum below 37.5 is NORMAL.
C23_LevelOfUnroundedValues ==
    \A r \in C23_Levelled :
        /\ req[r].risk_level =
              classify_risk(C23_UnroundedAsymmetry(r), C23_UnroundedMax(r)).risk_level
        /\ (/\ DLess(C23_UnroundedAsymmetry(r), Setting(ASYMMETRY_NORMAL))
            /\ DLess(C23_UnroundedMax(r), Setting(TEMP_NORMAL_MAX)))
              => req[r].risk_level = "NORMAL"

\* C23 amended: the level a pipeline assigns is the level classify_risk gives
\* to the asymmetry and the maximum rounded to 2 decimals; a reading with an
\* unrounded asymmetry below 0.495 and a maximum below 37.495 is NORMAL.
C23_LevelOfRoundedValues ==
    \A r \in C23_Levelled :
        /\ req[r].risk_level =
              classify_risk(FromDecimal(Round2(C23_UnroundedAsymmetry(r)), 100),
                            FromDecimal(Round2(C23_UnroundedMax(r)), 100)).risk_level
        /\ (/\ DLess(C23_UnroundedAsymmetry(r), FromDecimal(495, 1000))
            /\ DLess(C23_UnroundedMax(r), FromDecimal(37495, 1000)))
              => req[r].risk_level = "NORMAL"

\* A reading whose unrounded asymmetry is below 0.5 was classified ELEVATED.
C23_Witness ==
    \E r \in C23_Levelled :
        /\ DLess(C23_UnroundedAsymmetry(r), Setting(ASYMMETRY_NORMAL))
        /\ DLess(C23_UnroundedMax(r), Setting(TEMP_NORMAL_MAX))
        /\ req[r].risk_level = "ELEVATED"

\* ---------------------------------------------------------------------------
\* C24
\* ---------------------------------------------------------------------------

\* C24: for every reading a pipeline has processed, the level NORMAL comes
\* with an empty list of anomaly zones, in the request and in the stored
\* analysis, so the NORMAL conclusion is never stored next to flagged zones.
C24_NormalImpliesNoZones ==
    /\ \A r \in Requests :
          (req[r].pc \in AfterZones /\ req[r].risk_level = "NORMAL")
              => /\ find_anomaly_zones(Floats(req[r].temps)) = << >>
                 /\ req[r].anomaly_zones = << >>
    /\ \A row \in db.analyses :
          row.risk_level = "NORMAL" => row.anomaly_zones = << >>

\* ---------------------------------------------------------------------------
\* C25
\* ---------------------------------------------------------------------------

\* Every persisted Measurement has exactly one AnalysisResult and every
\* persisted AnalysisResult references a persisted Measurement.
C25_Paired ==
    /\ \A m \in db.measurements :
          Cardinality({a \in db.analyses : a.measurement_id = m.id}) = 1
    /\ \A a \in db.analyses :
          \E m \in db.measurements : m.id = a.measurement_id

\* A call that failed has persisted neither a Measurement nor an
\* AnalysisResult.
C25_FailedPersistsNeither ==
    \A r \in Requests :
        req[r].pc = "failed" => MeasurementsOf(r) = {} /\ AnalysesOf(r) = {}

\* C25: after any sequence of create_measurement and image-upload calls,
\* failing ones included, the persisted Measurements and AnalysisResults are
\* paired one to one, and a failed call has persisted neither.
C25_PairsOrNothing == C25_Paired /\ C25_FailedPersistsNeither

\* ---------------------------------------------------------------------------
\* routers/analysis.py: get_statistics, served while measurements are being
\* created.  Every measurement of the model lies within the period asked for.
\* ---------------------------------------------------------------------------

RECURSIVE RowsById(_)
\* The rows of a result in the order of their primary keys.
RowsById(rows) ==
    IF rows = {} THEN << >>
    ELSE LET first == CHOOSE row \in rows : \A other \in rows : row.id <= other.id
         IN  <<first>> \o RowsById(rows \ {first})

\* round(sum(values) / len(values), 2) and round(max(values), 2) of a column
\* stored in hundredths; a result has one row or two here.
ColumnMean(values) ==
    Round2(DDiv(FSum([i \in DOMAIN values |-> FromDecimal(values[i], 100)]),
                Len(values)))

ColumnMax(values) ==
    Round2(FMax([i \in DOMAIN values |-> FromDecimal(values[i], 100)]))

\* The count of the second query for one level: the AnalysisResults joined
\* to their Measurements, as the tables are when the query runs.
RiskCount(level) ==
    Cardinality({a \in db.analyses :
                    /\ a.risk_level = level
                    /\ \E m \in db.measurements : m.id = a.measurement_id})

\* The dict returned for the rows of the first query (lines 178-203).
StatisticsOf(rows) ==
    LET ordered == RowsById(rows)
    IN  [total_measurements |-> Len(ordered),
         message |-> FALSE,
         avg_asymmetry |-> ColumnMean([i \in DOMAIN ordered |-> ordered[i].asymmetry]),
         max_asymmetry |-> ColumnMax([i \in DOMAIN ordered |-> ordered[i].asymmetry]),
         avg_left_temp |-> ColumnMean([i \in DOMAIN ordered |-> ordered[i].avg_left]),
         avg_right_temp |-> ColumnMean([i \in DOMAIN ordered |-> ordered[i].avg_right]),
         normal |-> RiskCount("NORMAL"),
         elevated |-> RiskCount("ELEVATED"),
         high |-> RiskCount("HIGH")]

\* Lines 161-175: the first query; without measurements the handler returns
\* total_measurements 0 and a message.
SelectMeasurements ==
    /\ stats.pc = "idle"
    /\ stats' = IF db.measurements = {}
                    THEN [stats EXCEPT !.pc = "responded",
                                       !.response = [NoStatistics EXCEPT !.message = TRUE]]
                    ELSE [stats EXCEPT !.pc = "selected",
                                       !.measurements = db.measurements]
    /\ UNCHANGED notStats

\* Lines 177-203: the second query and the dict returned.
CountRiskLevels ==
    /\ stats.pc = "selected"
    /\ stats' = [stats EXCEPT !.pc = "responded",
                              !.response = StatisticsOf(stats.measurements)]
    /\ UNCHANGED notStats

NextStatistics == NextPipeline \/ SelectMeasurements \/ CountRiskLevels

SpecStatistics == InitPipeline /\ [][NextStatistics]_vars

\* ---------------------------------------------------------------------------
\* C26
\* ---------------------------------------------------------------------------

\* C26: in every get_statistics response with total_measurements > 0, the
\* three counts of risk_distribution add up to total_measurements, also when
\* measurements are created between the two queries of the endpoint.
C26_DistributionAddsUp ==
    (stats.pc = "responded" /\ stats.response.total_measurements > 0)
        => stats.response.normal + stats.response.elevated + stats.response.high
               = stats.response.total_measurements

\* ---------------------------------------------------------------------------
\* services/arduino.py and the simulate endpoint of routers/measurements.py.
\*
\* The draws of random.random() are multiples k/DrawGrid; the small terms of
\* read_data are carried multiplied by DrawGrid, which leaves every rounding
\* where it is, since DrawGrid is a power of two.
\* ---------------------------------------------------------------------------

\* DrawGrid * (random.random() * width), for the draw k/DrawGrid and the
\* width given in tenths (0.4 and 0.3).
ScaledProduct(k, width) == RoundD(DMul(FromDecimal(width, 10), k))

\* DrawGrid * (random.random() * width - width/2): the float of width/2 is
\* half the float of width.
ScaledOffset(k, width) ==
    FSub(ScaledProduct(k, width), DMul(FromDecimal(width, 10), DrawGrid \div 2))

\* DrawGrid * base_temp: "36.6 + (random.random() * 0.4 - 0.2)"
ScaledBaseTemp(k) ==
    RoundD(DAdd(DMul(FromDecimal(366, 10), DrawGrid), ScaledOffset(k, 4)))

\* "variance = random.random() * 0.3 - 0.15; temp = round(base_temp +
\* variance, 1)", in tenths of a degree.
SensorTemp(base_draw, k) ==
    RoundDec(DDiv(RoundD(DAdd(ScaledBaseTemp(base_draw), ScaledOffset(k, 3))),
                  DrawGrid), 10)

\* MockArduinoService.read_data() on the draws ds: the first for the base
\* temperature, the next eight for the sensors.
read_data(ds) == [k \in 1..8 |-> SensorTemp(ds[1], ds[k + 1])]

\* The draws of one reading: any of RandomDraws for the base temperature,
\* the smallest or the largest for each sensor.
DeviceRolls ==
    {<<base_draw>> \o sensor_draws :
        base_draw \in RandomDraws,
        sensor_draws \in [1..8 -> {0, DrawGrid - 1}]}

\* MeasurementCreate: device_id is declared Optional[str], and pydantic 2
\* takes no int for a str; each sensor must lie within [30, 45].
ValidationError(device_id_type, sensors) ==
    IF device_id_type \notin {"str", "None"} THEN "device_id: string_type"
    ELSE IF \E i \in DOMAIN sensors : sensors[i] < 300 THEN "sensor: greater_than_equal"
    ELSE IF \E i \in DOMAIN sensors : sensors[i] > 450 THEN "sensor: less_than_equal"
    ELSE NoValue

InitDevice ==
    /\ settings = Settings
    /\ rolls \in DeviceRolls
    /\ simulate = [NoSimulation EXCEPT !.pc = "received"]
    /\ BotIdle
    /\ StatsIdle
    /\ RiskIdle
    /\ EngineIdle
    /\ LLMIdle
    /\ ImageIdle
    /\ PipelineIdle

\* simulate_measurement: "temps = arduino_service.read_data()"
ReadData ==
    /\ simulate.pc = "received"
    /\ simulate' = [simulate EXCEPT !.temps = read_data(rolls), !.pc = "read"]
    /\ UNCHANGED rolls
    /\ UNCHANGED notDevice
    /\ UNCHANGED engineVars

\* simulate_measurement: "data = MeasurementCreate(device_id=0, source=
\* "simulation", sensor_1=temps[0], ...)"; the ValidationError leaves the
\* handler before create_measurement is called.
BuildMeasurementCreate ==
    /\ simulate.pc = "read"
    /\ LET error == ValidationError("int", simulate.temps)
       IN  simulate' = [simulate EXCEPT !.error = error,
                                        !.pc = IF error = NoValue THEN "validated"
                                                                  ELSE "failed"]
    /\ UNCHANGED rolls
    /\ UNCHANGED notDevice
    /\ UNCHANGED engineVars

NextDevice == ReadData \/ BuildMeasurementCreate

SpecDevice == InitDevice /\ [][NextDevice]_vars

\* ---------------------------------------------------------------------------
\* C27
\* ---------------------------------------------------------------------------

\* The reading the simulate endpoint has read has 8 values within
\* [36.0, 37.5].
C27_ReadingInRange ==
    simulate.pc # "received" =>
        /\ Len(simulate.temps) = 8
        /\ \A i \in 1..8 : simulate.temps[i] \in 360..375

\* The engine, were it handed the reading, gives NORMAL, no descriptions and
\* no anomaly zones.
C27_EngineFindsNothing ==
    simulate.pc # "received" =>
        /\ EngineOutput(simulate.temps).risk_level = "NORMAL"
        /\ EngineOutput(simulate.temps).anomalies = << >>
        /\ EngineOutput(simulate.temps).anomaly_zones = << >>

LevelValues == {300, 370}

MarginValues == {300, 308, 370}

ZoneReadings ==
    {l \o r : l \in [1..4 -> LevelValues], r \in [1..4 -> MarginValues]}

InitZones ==
    /\ settings = Settings
    /\ BotIdle
    /\ StatsIdle
    /\ DeviceIdle
    /\ temps \in ZoneReadings
    /\ metrics = NoMetrics
    /\ anomaly_zones = << >>
    /\ called = {}
    /\ RiskIdle
    /\ LLMIdle
    /\ ImageIdle
    /\ PipelineIdle

SpecZones == InitZones /\ [][NextEngine]_vars

\* ---------------------------------------------------------------------------
\* C28
\* ---------------------------------------------------------------------------

\* C28: find_anomaly_zones never flags all 8 zones of a reading, and returns
\* the empty list whenever the 8 values are equal or the largest exceeds the
\* smallest by 0.8 at most.
C28_NeverAllEight ==
    ZonesDone =>
        /\ Len(anomaly_zones) <= 7
        /\ (\A i \in 1..8 : temps[i] = temps[1]) => anomaly_zones = << >>
        /\ MaxTenths - MinTenths <= ZoneMargin => anomaly_zones = << >>

\* Seven zones of a reading were flagged.
C28_Witness == ZonesDone /\ Len(anomaly_zones) = 7

\* A reading whose spread is exactly 0.8 had no zone flagged.
C28_SpreadAtMargin ==
    ZonesDone /\ MaxTenths - MinTenths = ZoneMargin /\ anomaly_zones = << >>

\* ---------------------------------------------------------------------------
\* C29
\* ---------------------------------------------------------------------------

\* A returned field as the double it is.
C29_Double(hundredths) == FromDecimal(hundredths, 100)

\* max_temp - min_temp, subtracted as doubles.
C29_Spread ==
    FSub(C29_Double(metrics.max_temp), C29_Double(metrics.min_temp))

C29_Between(x, a, b) == (a <= x /\ x <= b) \/ (b <= x /\ x <= a)

\* The three averages lie within [min_temp, max_temp], avg_total lies
\* between the side averages, and asymmetry is not negative.
C29_AveragesWithinRange ==
    /\ C29_Between(metrics.avg_left, metrics.min_temp, metrics.max_temp)
    /\ metrics.min_temp <= metrics.max_temp
    /\ C29_Between(metrics.avg_right, metrics.min_temp, metrics.max_temp)
    /\ C29_Between(metrics.avg_total, metrics.min_temp, metrics.max_temp)
    /\ C29_Between(metrics.avg_total, metrics.avg_left, metrics.avg_right)
    /\ 0 <= metrics.asymmetry

====
